---------------------------- MODULE Spec2Model ----------------------------
(***************************************************************************)
(* Canonicalization, fingerprinting and incremental synchronization of the *)
(* course / question / question-option content tree (src/src/sync/*.rs,    *)
(* src/src/traits.rs, src/macros/src/lib.rs, src/src/data.rs).             *)
(*                                                                         *)
(* Texts are sequences of Unicode code points (naturals), so that trimming,*)
(* whitespace collapsing, punctuation rules and lexicographic comparison   *)
(* are computed as the code computes them.  Canonical bytes are flat       *)
(* sequences of tokens; a fingerprint is the digest of such a sequence.    *)
(***************************************************************************)
EXTENDS Integers, Sequences, FiniteSets, TLC

VARIABLES
    collection,     \* Sync Diff Engine: which collection is being diffed
    current,        \* Sync Diff Engine: current canonical entities (key, hash)
    metadata,       \* Sync Diff Engine: previously recorded SyncMetadata entry
    for_sync,       \* ElementSyncData.for_sync
    for_deletion,   \* ElementSyncData.for_deletion
    authored,       \* the entity as handed to the constructor / first process call
    option,         \* a QuestionOptionData value
    question,       \* a QuestionData value (owning its question_options)
    course,         \* a CourseData value (owning its questions)
    result,         \* Result of the last process call: "ok", "err" or "none"
    before,         \* the course as it was when an edit began
    target,         \* the edited entity: <<question id, option id>>
    history,        \* the operations applied to the tree since construction
    record,         \* a record on its own: source, topic, explanation, bundle or icon
    entity,         \* Asset Rename Coordinator: the image-bearing entity
    renames,        \* Asset Rename Coordinator: the renames requested, in order
    phase           \* position of the running scenario

diffVars == <<collection, current, metadata, for_sync, for_deletion>>
treeVars ==
    <<authored, option, question, course, result, before, target, history, record>>
imageVars == <<entity, renames>>
vars == <<collection, current, metadata, for_sync, for_deletion,
          authored, option, question, course, result, before, target, history,
          record, entity, renames, phase>>

None == "none"
DiffIdle ==
    /\ collection = None /\ current = {} /\ metadata = {}
    /\ for_sync = {} /\ for_deletion = {}
TreeIdle ==
    /\ authored = None /\ option = None /\ question = None
    /\ course = None /\ result = None /\ before = None /\ target = None
    /\ history = <<>> /\ record = None
ImageIdle == entity = None /\ renames = <<>>

(***************************************************************************)
(* Generic helpers                                                         *)
(***************************************************************************)
Range(s) == {s[i] : i \in 1..Len(s)}

(***************************************************************************)
(* Text: characters are code points; the named ones are those the          *)
(* formatter's regular expressions and the option formatter distinguish.   *)
(***************************************************************************)
Ch == [tab |-> 9, space |-> 32, quote |-> 34, percent |-> 37, period |-> 46,
       five |-> 53, colon |-> 58, question |-> 63, A |-> 65, B |-> 66,
       a |-> 97, b |-> 98, eacute |-> 233, Eacute |-> 201,
       lquote |-> 8220, rquote |-> 8221]

\* \s of the regex crate and char::is_whitespace (White_Space)
IsWhitespace(c) ==
    c \in (9..13) \cup {32, 133, 160, 5760, 8232, 8233, 8239, 8287, 12288} \cup (8192..8202)

\* \d of the regex crate, restricted to the ASCII digits
IsDigit(c) == c \in 48..57

RECURSIVE SeqLess(_, _)
\* str::cmp: lexicographic order (UTF-8 byte order is code point order)
SeqLess(s, t) ==
    IF t = <<>> THEN FALSE
    ELSE IF s = <<>> THEN TRUE
    ELSE IF s[1] # t[1] THEN s[1] < t[1]
    ELSE SeqLess(Tail(s), Tail(t))

\* str::trim
Trim(t) ==
    LET keep == {i \in 1..Len(t) : ~IsWhitespace(t[i])}
    IN  IF keep = {} THEN <<>>
        ELSE LET lo == CHOOSE i \in keep : \A j \in keep : i <= j
                 hi == CHOOSE i \in keep : \A j \in keep : j <= i
             IN  SubSeq(t, lo, hi)

\* length of the whitespace run that starts t
RECURSIVE WhitespaceRun(_)
WhitespaceRun(t) ==
    IF t # <<>> /\ IsWhitespace(t[1]) THEN 1 + WhitespaceRun(Tail(t)) ELSE 0

KeepWhitespaceRuns(t) == t

RECURSIVE CollapseWhitespace(_)
\* WHITESPACE_REGEX (\s\s+) .replace_all(_, " "): every run of two or more
\* whitespace characters becomes one space; a single one is left as it is
CollapseWhitespace(t) ==
    IF t = <<>> THEN <<>>
    ELSE LET n == WhitespaceRun(t)
         IN  IF n >= 2 THEN <<Ch.space>> \o CollapseWhitespace(SubSeq(t, n + 1, Len(t)))
             ELSE <<t[1]>> \o CollapseWhitespace(Tail(t))

\* WHITESPACE_BEFORE_END_REGEX (\s(\.|:|\?)$) .replace(_, "$1")
RemoveWhitespaceBeforeEnd(t) ==
    IF /\ Len(t) >= 2
       /\ t[Len(t)] \in {Ch.period, Ch.colon, Ch.question}
       /\ IsWhitespace(t[Len(t) - 1])
    THEN SubSeq(t, 1, Len(t) - 2) \o <<t[Len(t)]>>
    ELSE t

\* DOUBLE_QUOTE_REGEX ([“”]) .replace_all(_, "\"")
StraightenQuotes(t) ==
    [i \in 1..Len(t) |-> IF t[i] \in {Ch.lquote, Ch.rquote} THEN Ch.quote ELSE t[i]]

RECURSIVE SeparateUnits(_)
\* SPACE_BEFORE_PERCENT_SIGN_REGEX ((\d)(%)) .replace_all(_, "$1 $2")
SeparateUnits(t) ==
    IF Len(t) < 2 THEN t
    ELSE IF IsDigit(t[1]) /\ t[2] = Ch.percent
         THEN <<t[1], Ch.space, t[2]>> \o SeparateUnits(SubSeq(t, 3, Len(t)))
         ELSE <<t[1]>> \o SeparateUnits(Tail(t))

format_text(text) ==
    SeparateUnits(StraightenQuotes(RemoveWhitespaceBeforeEnd(
        CollapseWhitespace(Trim(text)))))

\* END_PERIOD_REGEX (\.$) .replace(_, "")
remove_end_period(text) ==
    IF text # <<>> /\ text[Len(text)] = Ch.period
    THEN SubSeq(text, 1, Len(text) - 1) ELSE text

\* u8::make_ascii_uppercase
AsciiUppercase(c) == IF c \in 97..122 THEN c - 32 ELSE c

\* text.get_mut(0..1) is Some only when the first character is one byte long
capitalize_first_char(text) ==
    IF text # <<>> /\ text[1] < 128
    THEN <<AsciiUppercase(text[1])>> \o Tail(text)
    ELSE text

\* char::to_uppercase on the characters of the model's alphabet
Uppercase(c) == IF c = Ch.eacute THEN Ch.Eacute ELSE AsciiUppercase(c)

(***************************************************************************)
(* Hash Engine (src/src/traits.rs, derive in src/macros/src/lib.rs).       *)
(* Canonical bytes are sequences of tokens: a code point of a text, a      *)
(* byte of a u16, or one token for a fixed-width or delimited value        *)
(* (a field label, a Uuid, a date, a decimal).                             *)
(***************************************************************************)
\* blake3::hash(bytes).to_string(): a collision-free digest of the bytes
Blake3(bytes) == <<"blake3", bytes>>

\* String::default(), the hash field of an entity that was never fingerprinted
EmptyHash == <<>>

\* stringify!(self.#field)
Label(field) == <<field>>

\* impl Hashable for Uuid
UuidBytes(id) == <<<<"uuid", id>>>>

\* impl Hashable for bool: self.to_string().to_bytes()
BoolBytes(b) == IF b THEN <<116, 114, 117, 101>> ELSE <<102, 97, 108, 115, 101>>

\* impl Hashable for u16: to_le_bytes
U16Bytes(n) == <<n % 256, n \div 256>>

\* impl Hashable for String
StringBytes(str) == str

(***************************************************************************)
(* QuestionOptionData (src/src/sync/question_option_data.rs)               *)
(***************************************************************************)
QuestionOptionData(id, question_id, text, correct, reference, preserve_case) ==
    [id |-> id, question_id |-> question_id, text |-> text, correct |-> correct,
     reference |-> reference, preserve_case |-> preserve_case, hash |-> EmptyHash]

\* derive_hashable, the field filter: a field is dropped when it is the hash
\* field and carries no skip_hash mark
DeriveKeepsField(ident, skip_hash) == ~(ident = "hash" /\ ~skip_hash)

\* derive(Hashable): every named field but `hash`, in declaration order.  The
\* field filter drops a field only when it is the hash field, so `reference`
\* and `preserve_case` (marked skip_hash) are serialized like the others.
OptionToBytes(o) ==
    Label("self.id") \o UuidBytes(o.id)
    \o Label("self.question_id") \o UuidBytes(o.question_id)
    \o Label("self.text") \o StringBytes(o.text)
    \o Label("self.correct") \o BoolBytes(o.correct)
    \o (IF DeriveKeepsField("reference", TRUE)
        THEN Label("self.reference") \o U16Bytes(o.reference) ELSE <<>>)
    \o (IF DeriveKeepsField("preserve_case", TRUE)
        THEN Label("self.preserve_case") \o BoolBytes(o.preserve_case) ELSE <<>>)
    \o (IF DeriveKeepsField("hash", FALSE)
        THEN Label("self.hash") \o StringBytes(o.hash) ELSE <<>>)

\* Hashable::refresh_hash: the stored fingerprint becomes the digest of to_bytes
OptionRefreshHash(o) == [o EXCEPT !.hash = Blake3(OptionToBytes(o))]

OptionIsBlank(o) == o.text = <<>>

OptionEqData(a, b) ==
    a.question_id = b.question_id /\ a.text = b.text /\ a.correct = b.correct

OptionAlwaysAppendPeriod(text) == Append(text, Ch.period)

OptionEnsureTextEndsWithPeriod(text) ==
    IF text[Len(text)] # Ch.period THEN Append(text, Ch.period) ELSE text

OptionFormatNoPeriod(o) ==
    LET t1 == format_text(o.text)
    IN  [o EXCEPT !.text = IF o.preserve_case THEN t1 ELSE capitalize_first_char(t1)]

OptionFormat(o) ==
    LET t1 == format_text(o.text)
        t2 == IF t1 # <<>> THEN OptionEnsureTextEndsWithPeriod(t1) ELSE t1
    IN  [o EXCEPT !.text = IF o.preserve_case THEN t2 ELSE capitalize_first_char(t2)]

\* QuestionOptionData::check accepts everything
OptionCheck(o) == TRUE

\* QuestionOptionData::process: <<Result, the entity afterwards>>
OptionProcess(o) ==
    LET f == OptionFormat(o)
    IN  IF OptionCheck(f) THEN <<"ok", OptionRefreshHash(f)>> ELSE <<"err", f>>

(***************************************************************************)
(* QuestionSourceData, QuestionTopicData, ExplanationData                  *)
(* (src/src/sync/question_source_data.rs, question_topic_data.rs,          *)
(* explanation_data.rs)                                                    *)
(***************************************************************************)
\* Option<T>: None, or the value
NoneValue == "None"

\* derive(Ord) on QuestionSourceType: declaration order
SourceTypeRank(type) ==
    CASE type = "exam" -> 0 [] type = "partial" -> 1
      [] type = "self_assessment" -> 2 [] OTHER -> 3

\* the dates in use, as NaiveDate::to_string writes them
DateRank(date) ==
    CASE date = NoneValue -> 0 [] date = "2023-07-01" -> 1 [] date = "2024-07-01" -> 2

\* Option<NaiveDate>::cmp: None sorts first, dates by day
DateLess(d1, d2) == DateRank(d1) < DateRank(d2)

KeySeparator == <<Ch.colon, Ch.colon>>
EmptyFieldKeyValue == <<33>>

\* Option<String>: nothing, or one string
NoString == <<>>
SomeString(str) == <<str>>

QuestionSourceData(course_key, type, name, date, variant) ==
    [course_key |-> course_key, type |-> type, name |-> name, date |-> date,
     variant |-> variant]

\* QuestionSourceData::key
SourceKey(src) ==
    src.course_key \o KeySeparator \o <<src.type>> \o KeySeparator
    \o (IF src.name = NoString THEN EmptyFieldKeyValue ELSE src.name[1]) \o KeySeparator
    \o (IF src.date = NoneValue THEN EmptyFieldKeyValue ELSE <<<<"date", src.date>>>>)
    \o KeySeparator
    \o (IF src.variant = NoString THEN EmptyFieldKeyValue ELSE src.variant[1])

\* QuestionSourceData::format: the name, when there is one, is trimmed
SourceFormat(src) ==
    [src EXCEPT !.name = IF src.name = NoString THEN NoString ELSE SomeString(Trim(src.name[1]))]

SourceCheckDateOnly(src) ==
    ~(src.date = NoneValue /\ (src.type = "exam" \/ src.type = "partial"))

\* QuestionSourceData::check
SourceCheck(src) ==
    ~(\/ (src.date = NoneValue /\ (src.type = "exam" \/ src.type = "partial"))
      \/ (src.name = NoString /\ src.type = "partial"))

\* QuestionSourceData::process: <<Result, the entity afterwards>>
SourceProcess(src) ==
    LET f == SourceFormat(src)
    IN  IF SourceCheck(f) THEN <<"ok", f>> ELSE <<"err", f>>

\* impl Hashable for QuestionSourceData: self.key().to_bytes()
SourceToBytes(src) == StringBytes(SourceKey(src))

QuestionTopicData(course_key, name) == [course_key |-> course_key, name |-> name]

\* QuestionTopicData::key
TopicKey(topic) == topic.course_key \o KeySeparator \o topic.name

\* impl Hashable for QuestionTopicData: self.key().to_bytes()
TopicToBytes(topic) == StringBytes(TopicKey(topic))

\* Option<ExplanationData>: no explanation, or one
NoExplanation == <<>>
SomeExplanation(e) == <<e>>

\* impl Hashable for ExplanationData: text, by, date.to_rfc3339()
ExplanationToBytes(e) == e.text \o e.by \o <<<<"rfc3339", e.date>>>>

ExplanationRefreshHash(e) == [e EXCEPT !.hash = Blake3(ExplanationToBytes(e))]

\* ExplanationData::format
ExplanationFormat(e) == [e EXCEPT !.text = Trim(e.text), !.by = Trim(e.by)]

ExplanationCheckTextOnly(e) == ~(e.text = <<>>)

\* ExplanationData::check
ExplanationCheck(e) == ~(e.text = <<>> \/ e.by = <<>>)

\* ExplanationData::process: <<Result, the entity afterwards>>
ExplanationProcess(e) ==
    LET f == ExplanationFormat(e)
    IN  IF ExplanationCheck(f) THEN <<"ok", ExplanationRefreshHash(f)>> ELSE <<"err", f>>

\* ExplanationData::new: <<Result, the entity when Ok>>
ExplanationDataNew(text, by, date) ==
    ExplanationProcess([text |-> text, by |-> by, date |-> date, hash |-> EmptyHash])

TopicFormatKeepCase(name) == remove_end_period(format_text(name))

\* QuestionTopicData::format
TopicFormat(name) == capitalize_first_char(remove_end_period(format_text(name)))

\* QuestionTopicData::new
QuestionTopicDataNew(course_key, name) == QuestionTopicData(course_key, TopicFormat(name))

\* impl Hashable for Option<T>: the value's bytes, or nothing
OptionalBytes(v, toBytes(_)) == IF v = NoneValue THEN <<>> ELSE toBytes(v)

\* impl Hashable for Vec<T>: the elements' bytes, one after the other
ConcatBytes(s, toBytes(_)) ==
    LET upTo[i \in 0..Len(s)] == IF i = 0 THEN <<>> ELSE upTo[i - 1] \o toBytes(s[i])
    IN  upTo[Len(s)]

(***************************************************************************)
(* QuestionData (src/src/sync/question_data.rs)                            *)
(***************************************************************************)
\* derive(Hashable): every named field but `hash`, in declaration order; the
\* options enter with their own bytes (no bytes are stored on an option)
QuestionToBytes(q) ==
    Label("self.id") \o UuidBytes(q.id)
    \o Label("self.course_key") \o StringBytes(q.course_key)
    \o Label("self.source") \o SourceToBytes(q.source)
    \o Label("self.text") \o StringBytes(q.text)
    \o Label("self.explanation")
    \o (IF q.explanation = NoExplanation THEN <<>> ELSE ExplanationToBytes(q.explanation[1]))
    \o Label("self.topic") \o TopicToBytes(q.topic)
    \o Label("self.topic_by") \o OptionalBytes(q.topic_by, StringBytes)
    \o Label("self.tags") \o ConcatBytes(q.tags, StringBytes)
    \o Label("self.image_file_name") \o OptionalBytes(q.image_file_name, StringBytes)
    \o Label("self.question_options") \o ConcatBytes(q.question_options, OptionToBytes)

QuestionRefreshHash(q) == [q EXCEPT !.hash = Blake3(QuestionToBytes(q))]

QuestionIsBlank(q) == q.text = <<>> /\ q.question_options = <<>>

OptionIsNotBlank(o) == ~OptionIsBlank(o)

KeepBlankOptions(opts) == opts

\* QuestionData::remove_blank_options
RemoveBlankOptions(opts) == SelectSeq(opts, OptionIsNotBlank)

TagIsNotEmpty(tag) == tag # <<>>

\* QuestionData::format: the text, and the tags trimmed with empty ones dropped
QuestionFormat(q) ==
    [q EXCEPT !.text = format_text(q.text),
              !.tags = SelectSeq([i \in 1..Len(q.tags) |-> Trim(q.tags[i])], TagIsNotEmpty)]

OptionLessByTextOnly(a, b) == SeqLess(a.text, b.text)

\* the comparator of QuestionData::sort answers Ordering::Less
OptionLess(a, b) ==
    IF a.correct THEN TRUE
    ELSE IF b.correct THEN FALSE
    ELSE SeqLess(a.text, b.text)

RECURSIVE OptionInsert(_, _)
OptionInsert(s, x) ==
    IF s = <<>> THEN <<x>>
    ELSE IF OptionLess(x, s[Len(s)])
         THEN Append(OptionInsert(SubSeq(s, 1, Len(s) - 1), x), s[Len(s)])
         ELSE Append(s, x)

RECURSIVE SortOptions(_)
\* slice::sort_by on the options: the insertion sort the standard library runs
\* on a slice of at most 20 elements (each element is moved left while the
\* comparator answers Less against its left neighbour)
SortOptions(s) ==
    IF s = <<>> THEN <<>>
    ELSE OptionInsert(SortOptions(SubSeq(s, 1, Len(s) - 1)), s[Len(s)])

KeepDuplicateOptions(s) == s

RECURSIVE DeduplicateOptions(_)
\* Vec::dedup_by(|a, b| a.eq_data(b)): an element equal to the one kept before
\* it is removed
DeduplicateOptions(s) ==
    IF Len(s) <= 1 THEN s
    ELSE LET kept == DeduplicateOptions(SubSeq(s, 1, Len(s) - 1))
         IN  IF OptionEqData(s[Len(s)], kept[Len(kept)]) THEN kept
             ELSE Append(kept, s[Len(s)])

MinQuestionOptions == 2
MaxQuestionOptions == 5

CheckQuestionOptionCountNoUpperLimit(q) ==
    ~(~QuestionIsBlank(q) /\ Len(q.question_options) < MinQuestionOptions)

CheckQuestionOptionCount(q) ==
    ~(/\ ~QuestionIsBlank(q)
      /\ (\/ Len(q.question_options) < MinQuestionOptions
          \/ Len(q.question_options) > MaxQuestionOptions))

CheckDuplicatesInQuestionOptions(q) ==
    Cardinality({o.text : o \in Range(q.question_options)}) = Len(q.question_options)

CheckCorrectCount(q) ==
    LET correct_count ==
            Cardinality({i \in 1..Len(q.question_options) : q.question_options[i].correct})
    IN  ~(~QuestionIsBlank(q) /\ correct_count # 1)

\* QuestionData::check
QuestionCheck(q) ==
    /\ CheckQuestionOptionCount(q)
    /\ CheckDuplicatesInQuestionOptions(q)
    /\ CheckCorrectCount(q)

\* what QuestionData::process leaves when check is reached
QuestionCanonicalize(q) ==
    LET r == [q EXCEPT !.question_options = RemoveBlankOptions(q.question_options)]
        f == QuestionFormat(r)
        st == [f EXCEPT !.question_options = SortOptions(f.question_options)]
    IN  [st EXCEPT !.question_options = DeduplicateOptions(st.question_options)]

\* QuestionData::process: <<Result, the entity afterwards>>
QuestionProcess(q) ==
    LET c == QuestionCanonicalize(q)
    IN  IF QuestionCheck(c) THEN <<"ok", QuestionRefreshHash(c)>> ELSE <<"err", c>>

(***************************************************************************)
(* CourseData (src/src/sync/course_data.rs)                                *)
(***************************************************************************)
\* impl Hashable for Decimal: self.to_string().to_bytes()
DecimalBytes(d) == <<<<"decimal", d>>>>

\* derive(Hashable): every named field but `hash`, in declaration order; the
\* questions enter with their own bytes
CourseToBytes(c) ==
    Label("self.key") \o StringBytes(c.key)
    \o Label("self.name") \o StringBytes(c.name)
    \o Label("self.short_name") \o StringBytes(c.short_name)
    \o Label("self.description") \o OptionalBytes(c.description, StringBytes)
    \o Label("self.price_in_uyu") \o DecimalBytes(c.price_in_uyu)
    \o Label("self.tags") \o ConcatBytes(c.tags, StringBytes)
    \o Label("self.image_file_name") \o StringBytes(c.image_file_name)
    \o Label("self.year") \o OptionalBytes(c.year, U16Bytes)
    \o Label("self.order") \o OptionalBytes(c.order, U16Bytes)
    \o Label("self.questions") \o ConcatBytes(c.questions, QuestionToBytes)
    \o Label("self.valid_topics") \o ConcatBytes(c.valid_topics, StringBytes)

CourseRefreshHash(c) == [c EXCEPT !.hash = Blake3(CourseToBytes(c))]

QuestionIsNotBlank(q) == ~QuestionIsBlank(q)

\* CourseData::remove_blank_questions
RemoveBlankQuestions(qs) == SelectSeq(qs, QuestionIsNotBlank)

\* CourseData::format
CourseFormat(c) ==
    [c EXCEPT !.name = Trim(c.name),
              !.short_name = Trim(c.short_name),
              !.description = IF c.description = NoneValue THEN NoneValue
                              ELSE Trim(c.description),
              !.tags = [i \in 1..Len(c.tags) |-> Trim(c.tags[i])]]

\* QuestionData::eq_data
QuestionEqData(a, b) ==
    /\ a.text = b.text
    /\ a.source = b.source
    /\ Len(a.question_options) = Len(b.question_options)
    /\ \A i \in 1..Len(a.question_options) :
          \E j \in 1..Len(b.question_options) :
              OptionEqData(a.question_options[i], b.question_options[j])

\* the comparator of CourseData::sort answers Ordering::Less: source type,
\* then source date, then text, then id
QuestionLess(a, b) ==
    IF a.source.type # b.source.type
    THEN SourceTypeRank(a.source.type) < SourceTypeRank(b.source.type)
    ELSE IF a.source.date # b.source.date THEN DateLess(a.source.date, b.source.date)
    ELSE IF a.text # b.text THEN SeqLess(a.text, b.text)
    ELSE a.id < b.id

RECURSIVE QuestionInsert(_, _)
QuestionInsert(s, x) ==
    IF s = <<>> THEN <<x>>
    ELSE IF QuestionLess(x, s[Len(s)])
         THEN Append(QuestionInsert(SubSeq(s, 1, Len(s) - 1), x), s[Len(s)])
         ELSE Append(s, x)

KeepQuestionOrder(s) == s

RECURSIVE SortQuestions(_)
\* slice::sort_by on the questions (a total order: ids are unique)
SortQuestions(s) ==
    IF s = <<>> THEN <<>>
    ELSE QuestionInsert(SortQuestions(SubSeq(s, 1, Len(s) - 1)), s[Len(s)])

RECURSIVE DeduplicateQuestions(_)
\* Vec::dedup_by(|a, b| a.eq_data(b)): a is the later element, b the one kept
DeduplicateQuestions(s) ==
    IF Len(s) <= 1 THEN s
    ELSE LET kept == DeduplicateQuestions(SubSeq(s, 1, Len(s) - 1))
         IN  IF QuestionEqData(s[Len(s)], kept[Len(kept)]) THEN kept
             ELSE Append(kept, s[Len(s)])

\* CourseData::check
CourseCheck(c) ==
    /\ ~(c.key = <<>> \/ c.name = <<>> \/ c.short_name = <<>>)
    /\ ~(c.price_in_uyu < 0)

\* what CourseData::process leaves when check is reached
CourseCanonicalize(c) ==
    LET r == [c EXCEPT !.questions = RemoveBlankQuestions(c.questions)]
        f == CourseFormat(r)
        st == [f EXCEPT !.questions = SortQuestions(f.questions)]
    IN  [st EXCEPT !.questions = DeduplicateQuestions(st.questions)]

CourseProcessRefreshFirst(c) ==
    LET k == CourseRefreshHash(CourseCanonicalize(c))
    IN  IF CourseCheck(k) THEN <<"ok", k>> ELSE <<"err", k>>

\* CourseData::process: <<Result, the entity afterwards>>
CourseProcess(c) ==
    LET k == CourseCanonicalize(c)
    IN  IF CourseCheck(k) THEN <<"ok", CourseRefreshHash(k)>> ELSE <<"err", k>>

(***************************************************************************)
(* BundleData and IconData (src/src/sync/bundle_data.rs, icon_data.rs)     *)
(***************************************************************************)
\* Option<Decimal>: no price, or one
NoDecimal == <<>>
SomeDecimal(d) == <<d>>

\* Option<PathBuf>: no file name, or one
NoFileName == <<>>
SomeFileName(file_name) == <<file_name>>

\* impl Hashable for PathBuf: to_string_lossy().as_bytes()
PathBytes(file_name) == file_name

BundleData(key, name, course_keys, discount, image_file_name) ==
    [key |-> key, name |-> name, course_keys |-> course_keys, discount |-> discount,
     image_file_name |-> image_file_name, hash |-> EmptyHash]

\* impl Hashable for BundleData: name, course keys, "discount {}", and
\* "image_file_name {}" when there is one
BundleToBytes(b) ==
    b.name
    \o ConcatBytes(b.course_keys, StringBytes)
    \o <<"discount ">> \o DecimalBytes(b.discount)
    \o (IF b.image_file_name = NoFileName THEN <<>>
        ELSE <<"image_file_name ">> \o PathBytes(b.image_file_name[1]))

\* BundleData::refresh_hash
BundleRefreshHash(b) == [b EXCEPT !.hash = Blake3(BundleToBytes(b))]

\* BundleData::format
BundleFormat(b) == [b EXCEPT !.key = Trim(b.key), !.name = Trim(b.name)]

BundleCheckNegativeOnly(b) == ~(b.name = <<>>) /\ ~(b.discount < 0)

\* BundleData::check
BundleCheck(b) == ~(b.name = <<>>) /\ ~(b.discount <= 0)

\* BundleData::process: <<Result, the entity afterwards>>
BundleProcess(b) ==
    LET f == BundleFormat(b)
    IN  IF BundleCheck(f) THEN <<"ok", BundleRefreshHash(f)>> ELSE <<"err", f>>

IconData(key, is_initial, description, price_in_uyu, image_file_name) ==
    [key |-> key, is_initial |-> is_initial, description |-> description,
     price_in_uyu |-> price_in_uyu, image_file_name |-> image_file_name,
     hash |-> EmptyHash]

\* derive(Hashable): every named field but `hash`, in declaration order
IconToBytes(i) ==
    Label("self.key") \o StringBytes(i.key)
    \o Label("self.is_initial") \o BoolBytes(i.is_initial)
    \o Label("self.description")
    \o (IF i.description = NoString THEN <<>> ELSE StringBytes(i.description[1]))
    \o Label("self.price_in_uyu")
    \o (IF i.price_in_uyu = NoDecimal THEN <<>> ELSE DecimalBytes(i.price_in_uyu[1]))
    \o Label("self.image_file_name") \o PathBytes(i.image_file_name)

IconRefreshHash(i) == [i EXCEPT !.hash = Blake3(IconToBytes(i))]

\* IconData::format
IconFormat(i) ==
    [i EXCEPT !.key = Trim(i.key),
              !.description = IF i.description = NoString THEN NoString
                              ELSE SomeString(format_text(i.description[1]))]

\* IconData::check
IconCheck(i) == ~(i.price_in_uyu # NoDecimal /\ i.price_in_uyu[1] <= 0)

\* IconData::process: <<Result, the entity afterwards>>
IconProcess(i) ==
    LET f == IconFormat(i)
    IN  IF IconCheck(f) THEN <<"ok", IconRefreshHash(f)>> ELSE <<"err", f>>

(***************************************************************************)
(* Scenario: one question option is built and processed, then processed    *)
(* again.                                                                  *)
(***************************************************************************)
MaxTextLen == 4

TextAlphabet ==
    {Ch.space, Ch.tab, Ch.period, Ch.question, Ch.percent, Ch.a, Ch.A, Ch.eacute, Ch.five}

BoundedTexts == UNION {[1..n -> TextAlphabet] : n \in 0..MaxTextLen}

\* "  option  1  " (tests::test_process), with `a`/`b` for the letters
ExampleOptionText ==
    <<Ch.space, Ch.space, Ch.a, Ch.b, Ch.space, Ch.space, Ch.five, Ch.space, Ch.space>>

OptionTexts == BoundedTexts \cup {ExampleOptionText}

OptionInit ==
    /\ DiffIdle
    /\ ImageIdle
    /\ \E t \in OptionTexts, pc \in BOOLEAN :
          authored = QuestionOptionData(1, 1, t, FALSE, 0, pc)
    /\ option = authored
    /\ question = None
    /\ course = None
    /\ result = None
    /\ before = None
    /\ target = None
    /\ history = <<>>
    /\ record = None
    /\ phase = "built"

\* QuestionOptionData::process (the call QuestionOptionData::new makes)
ProcessOption ==
    /\ phase = "built"
    /\ result' = OptionProcess(option)[1]
    /\ option' = OptionProcess(option)[2]
    /\ phase' = "processed"
    /\ UNCHANGED <<authored, question, course, before, target, history, record>>
    /\ UNCHANGED <<diffVars, imageVars>>

\* a second QuestionOptionData::process on the processed option
ProcessOptionAgain ==
    /\ phase = "processed"
    /\ result' = OptionProcess(option)[1]
    /\ option' = OptionProcess(option)[2]
    /\ phase' = "reprocessed"
    /\ UNCHANGED <<authored, question, course, before, target, history, record>>
    /\ UNCHANGED <<diffVars, imageVars>>

OptionNext == ProcessOption \/ ProcessOptionAgain

SpecOption == OptionInit /\ [][OptionNext]_vars

\* the text without its whitespace characters
RECURSIVE WithoutWhitespace(_)
WithoutWhitespace(t) ==
    IF t = <<>> THEN <<>>
    ELSE IF IsWhitespace(t[1]) THEN WithoutWhitespace(Tail(t))
    ELSE <<t[1]>> \o WithoutWhitespace(Tail(t))

Trimmed(t) == t = <<>> \/ (~IsWhitespace(t[1]) /\ ~IsWhitespace(t[Len(t)]))

NoWhitespaceRun(t) == \A i \in 1..(Len(t) - 1) : ~(IsWhitespace(t[i]) /\ IsWhitespace(t[i + 1]))

\* "Option 1." / "option 1." for ExampleOptionText
ExampleOptionCanonical(preserve_case) ==
    <<IF preserve_case THEN Ch.a ELSE Ch.A, Ch.b, Ch.space, Ch.five, Ch.period>>

\* The canonical form of C5 for an authored text and the text process left:
\* trimmed, no whitespace run, the authored characters in order with a final
\* period added when there was none, the first one upper-cased (toUpper says
\* how) unless preserve_case.
CanonicalOptionText(authoredText, preserve_case, text, toUpper(_)) ==
    LET core == WithoutWhitespace(authoredText)
        ended == IF core[Len(core)] = Ch.period THEN core ELSE Append(core, Ch.period)
        cased == IF preserve_case THEN ended ELSE <<toUpper(ended[1])>> \o Tail(ended)
    IN  /\ Trimmed(text)
        /\ NoWhitespaceRun(text)
        /\ text[Len(text)] = Ch.period
        /\ WithoutWhitespace(text) = cased
        /\ authoredText = ExampleOptionText => text = ExampleOptionCanonical(preserve_case)

\* C5: QuestionOptionData::process leaves every non-empty option text in its
\* canonical form: trimmed, whitespace runs collapsed, a final period, the first
\* character upper-cased unless preserve_case (then the case is as authored).
C5_OptionCanonicalForm ==
    (phase = "processed" /\ Trim(authored.text) # <<>>) =>
        /\ result = "ok"
        /\ CanonicalOptionText(authored.text, authored.preserve_case, option.text, Uppercase)

\* The same with the first character upper-cased only when it is an ASCII letter.
C5_OptionCanonicalFormAscii ==
    (phase = "processed" /\ Trim(authored.text) # <<>>) =>
        /\ result = "ok"
        /\ CanonicalOptionText(authored.text, authored.preserve_case, option.text, AsciiUppercase)

\* C12: the fingerprint of an option depends neither on its stored hash field
\* nor on the fields marked skip_hash: options equal in id, question id,
\* formatted text and correctness that differ only in reference or in
\* preserve_case have the same canonical bytes and the same fingerprint.
C12_SkipHashFieldsDoNotContribute ==
    (phase = "processed" /\ result = "ok") =>
        /\ OptionRefreshHash([option EXCEPT !.hash = EmptyHash]).hash = option.hash
        /\ \A reference \in 0..1, preserve_case \in BOOLEAN :
              LET other == OptionProcess([authored EXCEPT !.reference = reference,
                                                          !.preserve_case = preserve_case])[2]
              IN  other.text = option.text =>
                      /\ OptionToBytes(other) = OptionToBytes(option)
                      /\ other.hash = option.hash

\* the part of C12 about the stored hash field alone
C12_HashFieldDoesNotContribute ==
    (phase = "processed" /\ result = "ok") =>
        /\ OptionRefreshHash([option EXCEPT !.hash = EmptyHash]).hash = option.hash
        /\ OptionToBytes([option EXCEPT !.hash = EmptyHash]) = OptionToBytes(option)

(***************************************************************************)
(* Scenario: one question is built from authored options (each already     *)
(* built by QuestionOptionData::new, so its text is canonical or empty)    *)
(* and processed, then processed again.                                    *)
(***************************************************************************)
MaxAuthoredOptions == 6

\* the text authored at a position: "D.", "G.", "C.", "F.", "B.", "E.", "A.", ...
\* (distinct, and not in text order)
OwnText(i) == <<Ch.A + ((3 * i) % 7), Ch.period>>

CourseKey == <<99>>
DefaultTopicName == <<95>>
OtherSource == QuestionSourceData(CourseKey, "other", NoString, NoneValue, NoString)

\* the authored question text and tags: nothing, or text and tags to be formatted
BlankText == <<>>
MessyText == <<Ch.space, Ch.a, Ch.space, Ch.space, Ch.b, Ch.space, Ch.question>>
MessyTags == <<<<Ch.space, Ch.a>>, <<Ch.space>>, <<Ch.b>>>>

QuestionData(id, course_key, source, text, tags, question_options) ==
    [id |-> id, course_key |-> course_key, source |-> source, text |-> text,
     explanation |-> NoExplanation, topic |-> QuestionTopicData(course_key, DefaultTopicName),
     topic_by |-> NoneValue, tags |-> tags, image_file_name |-> NoneValue,
     question_options |-> question_options, hash |-> EmptyHash]

\* the positions whose text the other options may share
SharedTextPositions == {1, 2}

\* option lists of length n: each option has its own text or the text of the
\* first or the second one, is correct or not, and the first or the last may
\* be blank
AuthoredOptionLists(qid, n) ==
    {[i \in 1..n |->
        OptionRefreshHash(QuestionOptionData(i, qid,
            IF i = blankAt THEN <<>> ELSE IF dup[i] THEN OwnText(shared) ELSE OwnText(i),
            correct[i], i - 1, FALSE))] :
        dup \in [1..n -> BOOLEAN], correct \in [1..n -> BOOLEAN], blankAt \in {0, 1, n},
        shared \in SharedTextPositions}

QuestionInit ==
    /\ DiffIdle
    /\ ImageIdle
    /\ \E n \in 0..MaxAuthoredOptions, messy \in BOOLEAN :
          \E opts \in AuthoredOptionLists(1, n) :
              authored = QuestionData(1, CourseKey, OtherSource,
                                      IF messy THEN MessyText ELSE BlankText,
                                      IF messy THEN MessyTags ELSE <<>>, opts)
    /\ question = authored
    /\ option = None
    /\ course = None
    /\ result = None
    /\ before = None
    /\ target = None
    /\ history = <<>>
    /\ record = None
    /\ phase = "question_built"

\* QuestionData::process (the call QuestionData::new makes)
ProcessQuestion ==
    /\ phase = "question_built"
    /\ result' = QuestionProcess(question)[1]
    /\ question' = QuestionProcess(question)[2]
    /\ phase' = "question_processed"
    /\ UNCHANGED <<authored, option, course, before, target, history, record>>
    /\ UNCHANGED <<diffVars, imageVars>>

\* a second QuestionData::process on the same question
ProcessQuestionAgain ==
    /\ phase = "question_processed"
    /\ result' = QuestionProcess(question)[1]
    /\ question' = QuestionProcess(question)[2]
    /\ phase' = "question_reprocessed"
    /\ UNCHANGED <<authored, option, course, before, target, history, record>>
    /\ UNCHANGED <<diffVars, imageVars>>

\* question.question_options[j].text = "" on a processed question
BlankOneOption ==
    /\ phase = "question_processed"
    /\ result = "ok"
    /\ \E j \in 1..Len(question.question_options) :
          /\ question' = [question EXCEPT !.question_options[j].text = <<>>]
          /\ target' = j
    /\ before' = question
    /\ phase' = "option_blanked"
    /\ UNCHANGED <<authored, option, course, result, history, record>>
    /\ UNCHANGED <<diffVars, imageVars>>

\* QuestionData::process after the text of an option was emptied
ProcessBlankedQuestion ==
    /\ phase = "option_blanked"
    /\ result' = QuestionProcess(question)[1]
    /\ question' = QuestionProcess(question)[2]
    /\ phase' = "question_after_blank"
    /\ UNCHANGED <<authored, option, course, before, target, history, record>>
    /\ UNCHANGED <<diffVars, imageVars>>

QuestionNext ==
    \/ ProcessQuestion
    \/ ProcessQuestionAgain
    \/ BlankOneOption
    \/ ProcessBlankedQuestion

SpecQuestion == QuestionInit /\ [][QuestionNext]_vars

\* C4: check, as process runs it, succeeds exactly when the question is blank
\* or has 2 to 5 options with pairwise distinct texts, exactly one of them
\* correct; 1 option, 2 correct among 3, 6 options, and text without options fail.
C4_CheckExact ==
    phase = "question_processed" =>
        LET opts == question.question_options
            n == Len(opts)
            blank == question.text = <<>> /\ n = 0
            distinct == \A i, j \in 1..n : i # j => opts[i].text # opts[j].text
            oneCorrect == \E i \in 1..n : opts[i].correct /\ \A j \in 1..n : opts[j].correct => j = i
        IN  /\ result = "ok" <=> (blank \/ (n >= 2 /\ n <= 5 /\ distinct /\ oneCorrect))
            /\ n = 1 => result = "err"
            /\ n = 6 => result = "err"
            /\ (n = 0 /\ question.text # <<>>) => result = "err"
            /\ (n = 3 /\ Cardinality({i \in 1..n : opts[i].correct}) = 2) => result = "err"
            /\ (n = 2 /\ distinct /\ oneCorrect) => result = "ok"

C4_Witness ==
    /\ phase = "question_processed"
    /\ result = "err"
    /\ Len(question.question_options) = 6
    /\ Len(authored.question_options) = 6
    /\ \A i, j \in 1..6 :
          i # j => question.question_options[i].text # question.question_options[j].text
    /\ Cardinality({i \in 1..6 : question.question_options[i].correct}) = 1

\* the authored question is the one of tests::test_deduplicate: 3 to 5 options
\* with text, one of them correct, the incorrect ones all with one text
DeduplicateCase ==
    LET opts == authored.question_options
        n == Len(opts)
    IN  /\ n >= 3 /\ n <= 5
        /\ \A i \in 1..n : opts[i].text # <<>>
        /\ Cardinality({i \in 1..n : opts[i].correct}) = 1
        /\ \A i, j \in 1..n :
              (~opts[i].correct /\ ~opts[j].correct) => opts[i].text = opts[j].text

\* the text of the correct option is not the one the incorrect options share
CorrectTextIsOwn ==
    \A i, j \in 1..Len(authored.question_options) :
        (authored.question_options[i].correct /\ ~authored.question_options[j].correct)
            => authored.question_options[i].text # authored.question_options[j].text

\* C19: after QuestionData::process succeeds no two options of the question
\* share question id, text and correctness; a question built with n options
\* (3 <= n <= 5), one correct and the other n-1 incorrect ones all carrying
\* the same text, ends with exactly 2 options (and process succeeds when the
\* correct option's text is another one).
C19_DuplicateOptionsCollapse ==
    phase = "question_processed" =>
        LET opts == question.question_options
        IN  /\ result = "ok" =>
                  \A i, j \in 1..Len(opts) :
                      i # j => ~(/\ opts[i].question_id = opts[j].question_id
                                 /\ opts[i].text = opts[j].text
                                 /\ opts[i].correct = opts[j].correct)
            /\ (DeduplicateCase /\ result = "ok") => Len(opts) = 2
            /\ (DeduplicateCase /\ CorrectTextIsOwn) => (result = "ok" /\ Len(opts) = 2)

\* a question with five options, the first correct and the four others with
\* one text, was processed and has two options
C19_Witness ==
    /\ phase = "question_processed"
    /\ result = "ok"
    /\ DeduplicateCase
    /\ Len(authored.question_options) = 5
    /\ authored.question_options[1].correct
    /\ Len(question.question_options) = 2

\* the authored options with text, no two of them equal under eq_data
NonBlankAuthored == SelectSeq(authored.question_options, OptionIsNotBlank)

NoAuthoredDuplicates ==
    \A i, j \in 1..Len(NonBlankAuthored) :
        i # j => ~OptionEqData(NonBlankAuthored[i], NonBlankAuthored[j])

\* C20: QuestionData::process removes every option whose text is empty and,
\* when no two options are duplicates, no other option: after the text of one
\* option of a processed question with k options is set to empty, process
\* leaves exactly k-1 options, and no processed question has an option with
\* empty text.
C20_BlankOptionsRemoved ==
    /\ phase \in {"question_processed", "question_reprocessed", "question_after_blank"} =>
          \A i \in 1..Len(question.question_options) :
              question.question_options[i].text # <<>>
    /\ (phase = "question_processed" /\ NoAuthoredDuplicates) =>
          {o.id : o \in Range(question.question_options)}
              = {o.id : o \in Range(NonBlankAuthored)}
    /\ phase = "question_after_blank" =>
          /\ Len(question.question_options) = Len(before.question_options) - 1
          /\ {o.id : o \in Range(question.question_options)}
                = {o.id : o \in Range(before.question_options)}
                    \ {before.question_options[target].id}

\* the last of the three options of a processed question was emptied, and
\* process left two options (tests::test_blank_option)
C20_Witness ==
    /\ phase = "question_after_blank"
    /\ result = "ok"
    /\ Len(before.question_options) = 3
    /\ target = 3
    /\ Len(question.question_options) = 2

\* C23: after the sort every correct option precedes every incorrect option
\* and options of equal correctness are in ascending text order, for every
\* option list, also one with more than one correct option.
C23_OptionsTotallyOrdered ==
    phase = "question_processed" =>
        LET opts == question.question_options
        IN  \A i, j \in 1..Len(opts) :
                i < j =>
                    /\ (opts[i].correct \/ ~opts[j].correct)
                    /\ (opts[i].correct = opts[j].correct)
                          => ~SeqLess(opts[j].text, opts[i].text)

\* C23, what the code keeps: the correct options come first and the incorrect
\* ones are in ascending text order
C23_CorrectFirstIncorrectOrdered ==
    phase = "question_processed" =>
        LET opts == question.question_options
        IN  \A i, j \in 1..Len(opts) :
                i < j =>
                    /\ (opts[i].correct \/ ~opts[j].correct)
                    /\ (~opts[i].correct /\ ~opts[j].correct)
                          => ~SeqLess(opts[j].text, opts[i].text)

\* the authored options with the ones at positions i and j exchanged
SwapOptions(q, i, j) ==
    [q EXCEPT !.question_options =
        [k \in 1..Len(q.question_options) |->
            IF k = i THEN q.question_options[j]
            ELSE IF k = j THEN q.question_options[i]
            ELSE q.question_options[k]]]

\* C7: processing yields the same canonical order, the same surviving options
\* and the same fingerprints whatever the order in which the options of the
\* question were authored.
C7_AuthoringOrderIrrelevant ==
    (phase = "question_processed" /\ result = "ok") =>
        \A i, j \in 1..Len(authored.question_options) :
            QuestionProcess(SwapOptions(authored, i, j)) = <<"ok", question>>

\* C7 without authored duplicates: options that differ pairwise in text
C7_AuthoringOrderIrrelevantWithoutDuplicates ==
    (/\ phase = "question_processed"
     /\ result = "ok"
     /\ \A i, j \in 1..Len(authored.question_options) :
           i # j => authored.question_options[i].text # authored.question_options[j].text) =>
        \A i, j \in 1..Len(authored.question_options) :
            QuestionProcess(SwapOptions(authored, i, j)) = <<"ok", question>>

(***************************************************************************)
(* Scenario: a course is built from processed questions and processed,     *)
(* processed again, and then one option of one question is edited in place *)
(* and its question and the course are reprocessed                         *)
(***************************************************************************)
MaxQuestions == 3

\* the id authored at a position: 2, 4, 1, 3, ... (distinct, not in id order)
QuestionIdAt(i) == (2 * i) % 5

ExamSource(date) == QuestionSourceData(CourseKey, "exam", NoString, date, NoString)

\* the shapes a question is authored in: <<text, source, text of the incorrect option>>
QuestionShapes ==
    {<<<<Ch.A, Ch.question>>, OtherSource, <<Ch.B, Ch.period>>>>,
     <<<<Ch.A, Ch.question>>, OtherSource, <<Ch.B, Ch.B, Ch.period>>>>,
     <<<<Ch.B, Ch.question>>, OtherSource, <<Ch.B, Ch.period>>>>,
     <<<<Ch.A, Ch.question>>, ExamSource("2024-07-01"), <<Ch.B, Ch.period>>>>,
     <<<<Ch.A, Ch.question>>, ExamSource("2023-07-01"), <<Ch.B, Ch.period>>>>}

\* the question of a shape with the given id: two options that carry the id of
\* their question, built by QuestionOptionData::new and QuestionData::new
ShapedQuestion(id, shape) ==
    QuestionProcess(QuestionData(id, CourseKey, shape[2], shape[1], <<>>,
        <<OptionProcess(QuestionOptionData(10 * id + 1, id, shape[3], FALSE, 0, FALSE))[2],
          OptionProcess(QuestionOptionData(10 * id + 2, id, <<Ch.A, Ch.period>>, TRUE, 1,
                                           FALSE))[2]>>))[2]

\* a question emptied for removal
BlankQuestion(id) == QuestionData(id, CourseKey, OtherSource, <<>>, <<>>, <<>>)

BlankShape == <<<<>>, OtherSource, <<>>>>

AuthoredQuestion(id, shape) ==
    IF shape = BlankShape THEN BlankQuestion(id) ELSE ShapedQuestion(id, shape)

AuthoredQuestionLists(n) ==
    {[i \in 1..n |-> AuthoredQuestion(QuestionIdAt(i), shapes[i])] :
        shapes \in [1..n -> QuestionShapes \cup {BlankShape}]}

CourseData(key, name, short_name, price_in_uyu, tags, questions) ==
    [key |-> key, name |-> name, short_name |-> short_name, description |-> NoneValue,
     price_in_uyu |-> price_in_uyu, tags |-> tags, image_file_name |-> <<>>,
     year |-> NoneValue, order |-> NoneValue, questions |-> questions,
     valid_topics |-> <<DefaultTopicName>>, hash |-> EmptyHash]

\* the course fields as authored: <<name, short_name, price_in_uyu, tags, key>>
CourseShapes ==
    {<<<<Ch.a>>, <<Ch.b>>, 0, <<>>, CourseKey>>,
     <<<<Ch.space, Ch.a, Ch.space>>, <<Ch.b, Ch.tab>>, 1, <<<<Ch.space, Ch.a>>>>, CourseKey>>,
     <<<<Ch.a>>, <<Ch.space>>, 0, <<>>, CourseKey>>,
     <<<<Ch.a>>, <<Ch.b>>, -1, <<>>, CourseKey>>,
     <<<<Ch.tab, Ch.space>>, <<Ch.b>>, 0, <<>>, CourseKey>>,
     <<<<Ch.a>>, <<Ch.b>>, 0, <<>>, <<>>>>,
     <<<<Ch.a>>, <<Ch.b>>, 0, <<>>, <<Ch.space>>>>}

CourseInit ==
    /\ DiffIdle
    /\ ImageIdle
    /\ \E n \in 0..MaxQuestions, shape \in CourseShapes :
          \E qs \in AuthoredQuestionLists(n) :
              authored = CourseData(shape[5], shape[1], shape[2], shape[3], shape[4], qs)
    /\ course = authored
    /\ option = None
    /\ question = None
    /\ result = None
    /\ before = None
    /\ target = None
    /\ history = <<>>
    /\ record = None
    /\ phase = "course_built"

\* CourseData::process (the call CourseData::new makes)
ProcessCourse ==
    /\ phase = "course_built"
    /\ result' = CourseProcess(course)[1]
    /\ course' = CourseProcess(course)[2]
    /\ phase' = "course_processed"
    /\ UNCHANGED <<authored, option, question, before, target, history, record>>
    /\ UNCHANGED <<diffVars, imageVars>>

\* a second CourseData::process on the same course
ProcessCourseAgain ==
    /\ phase = "course_processed"
    /\ result' = CourseProcess(course)[1]
    /\ course' = CourseProcess(course)[2]
    /\ phase' = "course_reprocessed"
    /\ UNCHANGED <<authored, option, question, before, target, history, record>>
    /\ UNCHANGED <<diffVars, imageVars>>

\* the texts an option is edited to: a new one, and the one of its sibling
EditedTexts == {<<Ch.five, Ch.period>>, <<Ch.A, Ch.period>>}

\* course.questions[k].question_options[j].text = text
EditOptionText ==
    /\ phase = "course_processed"
    /\ result = "ok"
    /\ \E k \in 1..Len(course.questions) :
          \E j \in 1..Len(course.questions[k].question_options), text \in EditedTexts :
              /\ text # course.questions[k].question_options[j].text
              /\ course' = [course EXCEPT !.questions[k].question_options[j].text = text]
              /\ target' = <<course.questions[k].id, course.questions[k].question_options[j].id>>
    /\ before' = course
    /\ phase' = "option_edited"
    /\ UNCHANGED <<authored, option, question, result, history, record>>
    /\ UNCHANGED <<diffVars, imageVars>>

\* course.questions[k].question_options[j].correct = !correct
EditOptionCorrect ==
    /\ phase = "course_processed"
    /\ result = "ok"
    /\ \E k \in 1..Len(course.questions) :
          \E j \in 1..Len(course.questions[k].question_options) :
              /\ course' = [course EXCEPT !.questions[k].question_options[j].correct = ~@]
              /\ target' = <<course.questions[k].id, course.questions[k].question_options[j].id>>
    /\ before' = course
    /\ phase' = "option_edited"
    /\ UNCHANGED <<authored, option, question, result, history, record>>
    /\ UNCHANGED <<diffVars, imageVars>>

\* course.questions[k].process()? for the question of the edited option
ReprocessQuestion ==
    /\ phase = "option_edited"
    /\ \E k \in 1..Len(course.questions) :
          /\ course.questions[k].id = target[1]
          /\ result' = QuestionProcess(course.questions[k])[1]
          /\ course' = [course EXCEPT !.questions[k] = QuestionProcess(course.questions[k])[2]]
    /\ phase' = "question_reprocessed_in_course"
    /\ UNCHANGED <<authored, option, question, before, target, history, record>>
    /\ UNCHANGED <<diffVars, imageVars>>

\* course.process()?, reached when the question's process returned Ok
ReprocessCourse ==
    /\ phase = "question_reprocessed_in_course"
    /\ result = "ok"
    /\ result' = CourseProcess(course)[1]
    /\ course' = CourseProcess(course)[2]
    /\ phase' = "course_after_edit"
    /\ UNCHANGED <<authored, option, question, before, target, history, record>>
    /\ UNCHANGED <<diffVars, imageVars>>

\* the prices a processed course is edited to
EditedPrices == {-1, 2}

\* course.price_in_uyu = price
EditCoursePrice ==
    /\ phase = "course_processed"
    /\ result = "ok"
    /\ \E price \in EditedPrices : course' = [course EXCEPT !.price_in_uyu = price]
    /\ before' = course
    /\ phase' = "price_edited"
    /\ UNCHANGED <<authored, option, question, result, target, history, record>>
    /\ UNCHANGED <<diffVars, imageVars>>

\* course.process() after the price was edited
ProcessEditedCourse ==
    /\ phase = "price_edited"
    /\ result' = CourseProcess(course)[1]
    /\ course' = CourseProcess(course)[2]
    /\ phase' = "course_after_price_edit"
    /\ UNCHANGED <<authored, option, question, before, target, history, record>>
    /\ UNCHANGED <<diffVars, imageVars>>

CourseNext ==
    \/ ProcessCourse
    \/ ProcessCourseAgain
    \/ EditCoursePrice
    \/ ProcessEditedCourse
    \/ EditOptionText
    \/ EditOptionCorrect
    \/ ReprocessQuestion
    \/ ReprocessCourse

SpecCourse == CourseInit /\ [][CourseNext]_vars

\* C15: a course whose key, name or short name is empty after trimming
\* whitespace fails validation, and every successfully processed course has a
\* key, a name and a short name that are non-empty after trimming.
C15_CourseNamesNotBlank ==
    phase = "course_processed" =>
        /\ (Trim(authored.key) = <<>> \/ Trim(authored.name) = <<>>
            \/ Trim(authored.short_name) = <<>>) => result = "err"
        /\ result = "ok" =>
              /\ Trim(course.key) # <<>>
              /\ Trim(course.name) # <<>>
              /\ Trim(course.short_name) # <<>>

\* C15, what the code keeps: a blank name or short name, and an empty key, are
\* rejected; an accepted course has a non-empty key, name and short name
C15_CourseNamesNotEmpty ==
    phase = "course_processed" =>
        /\ (authored.key = <<>> \/ Trim(authored.name) = <<>>
            \/ Trim(authored.short_name) = <<>>) => result = "err"
        /\ result = "ok" =>
              /\ course.key # <<>>
              /\ Trim(course.name) # <<>>
              /\ Trim(course.short_name) # <<>>

\* semantic equality of two options: the authored content, whatever the ids
OptionSameContent(a, b) == a.text = b.text /\ a.correct = b.correct

\* semantic equality of two questions: text, source and option sets
QuestionSameContent(a, b) ==
    /\ a.text = b.text
    /\ a.source = b.source
    /\ \A i \in 1..Len(a.question_options) : \E j \in 1..Len(b.question_options) :
          OptionSameContent(a.question_options[i], b.question_options[j])
    /\ \A j \in 1..Len(b.question_options) : \E i \in 1..Len(a.question_options) :
          OptionSameContent(a.question_options[i], b.question_options[j])

\* C6: after CourseData::process no two sibling questions with identical text,
\* identical source and semantically equal option sets remain, whatever their
\* ids and whatever lies between them in the sort order.
C6_DuplicateQuestionsCollapse ==
    (phase = "course_processed" /\ result = "ok") =>
        \A i, j \in 1..Len(course.questions) :
            i # j => ~QuestionSameContent(course.questions[i], course.questions[j])

QuestionWithId(c, id) ==
    c.questions[CHOOSE k \in 1..Len(c.questions) : c.questions[k].id = id]

OptionWithId(q, id) ==
    q.question_options[CHOOSE j \in 1..Len(q.question_options) : q.question_options[j].id = id]

\* after an edit and both reprocess calls: the fingerprints of the question and
\* the course of the edited option changed, those of the sibling options and the
\* sibling questions did not
C8_AncestorsChangeSiblingsKeep ==
    (phase = "course_after_edit" /\ result = "ok") =>
        LET qb == QuestionWithId(before, target[1])
            qa == QuestionWithId(course, target[1])
        IN  /\ qa.hash # qb.hash
            /\ course.hash # before.hash
            /\ \A j \in 1..Len(qa.question_options) :
                  qa.question_options[j].id # target[2] =>
                      qa.question_options[j].hash
                          = OptionWithId(qb, qa.question_options[j].id).hash
            /\ \A k \in 1..Len(course.questions) :
                  course.questions[k].id # target[1] =>
                      course.questions[k].hash
                          = QuestionWithId(before, course.questions[k].id).hash

\* C8: changing the text or the correctness of one option and reprocessing its
\* question and its course changes the fingerprint of that option, of its
\* question and of its course, and of no sibling option or sibling question.
C8_EditSensitivity ==
    (phase = "course_after_edit" /\ result = "ok") =>
        /\ OptionWithId(QuestionWithId(course, target[1]), target[2]).hash
              # OptionWithId(QuestionWithId(before, target[1]), target[2]).hash
        /\ C8_AncestorsChangeSiblingsKeep

(***************************************************************************)
(* Scenario: a course built by CourseData::new is operated on: set_topic   *)
(* and set_explanation on one of its questions, replace_question and       *)
(* process on the course                                                   *)
(***************************************************************************)
MaxOperations == 2
MaxTreeQuestions == 2

\* topic names handed to set_topic: " b. " and the default name
TopicNames == {<<Ch.space, Ch.b, Ch.period, Ch.space>>, DefaultTopicName}

\* explanation texts handed to set_explanation: " a ", nothing and " "
ExplanationTexts == {<<Ch.space, Ch.a, Ch.space>>, <<>>, <<Ch.space>>}

ExplanationAuthor == <<Ch.B>>

\* the authors handed to set_explanation: "B" and " "
ExplanationAuthors == {ExplanationAuthor, <<Ch.space>>}

\* Utc::now() at the call
Now == "2024-07-01T00:00:00+00:00"

TreeCourses ==
    {CourseProcess(CourseData(CourseKey, <<Ch.a>>, <<Ch.b>>, 0, <<>>, qs))[2] :
        qs \in UNION {AuthoredQuestionLists(n) : n \in 0..MaxTreeQuestions}}

OperationsInit ==
    /\ DiffIdle
    /\ ImageIdle
    /\ authored \in TreeCourses
    /\ course = authored
    /\ option = None
    /\ question = None
    /\ result = "ok"
    /\ before = None
    /\ target = None
    /\ history = <<>>
    /\ record = None
    /\ phase = "tree_built"

\* the question after QuestionData::set_topic: <<Result, the question afterwards>>
QuestionSetTopic(q, name, topic_by) ==
    QuestionProcess([q EXCEPT !.topic = QuestionTopicDataNew(q.course_key, name),
                              !.topic_by = topic_by])

\* the mutation of QuestionData::set_explanation that stores the explanation
\* before it is checked
QuestionSetExplanationUnchecked(q, text, by, date) ==
    IF ExplanationDataNew(text, by, date)[1] = "err"
    THEN <<"err", [q EXCEPT
             !.explanation = SomeExplanation(ExplanationDataNew(text, by, date)[2])]>>
    ELSE QuestionProcess([q EXCEPT
             !.explanation = SomeExplanation(ExplanationDataNew(text, by, date)[2])])

\* the question after QuestionData::set_explanation: ExplanationData::new may
\* fail, and then the question is left as it was
QuestionSetExplanation(q, text, by, date) ==
    IF ExplanationDataNew(text, by, date)[1] = "err" THEN <<"err", q>>
    ELSE QuestionProcess([q EXCEPT
             !.explanation = SomeExplanation(ExplanationDataNew(text, by, date)[2])])

\* the mutation of CourseData::replace_question that does not reprocess
CourseReplaceQuestionOnly(c, new_question) ==
    <<"ok", [c EXCEPT !.questions =
        [k \in 1..Len(c.questions) |->
            IF k = (CHOOSE j \in 1..Len(c.questions) :
                        /\ c.questions[j].id = new_question.id
                        /\ \A i \in 1..(j - 1) : c.questions[i].id # new_question.id)
            THEN new_question ELSE c.questions[k]]]>>

\* the course after CourseData::replace_question
CourseReplaceQuestion(c, new_question) ==
    CourseProcess([c EXCEPT !.questions =
        [k \in 1..Len(c.questions) |->
            IF k = (CHOOSE j \in 1..Len(c.questions) :
                        /\ c.questions[j].id = new_question.id
                        /\ \A i \in 1..(j - 1) : c.questions[i].id # new_question.id)
            THEN new_question ELSE c.questions[k]]])

Operating ==
    /\ phase \in {"tree_built", "tree_operated"}
    /\ result = "ok"
    /\ Len(history) < MaxOperations

\* course.questions[k].set_topic(name, topic_by)
SetTopic ==
    /\ Operating
    /\ \E k \in 1..Len(course.questions), name \in TopicNames :
          /\ result' = QuestionSetTopic(course.questions[k], name, NoneValue)[1]
          /\ course' = [course EXCEPT !.questions[k] =
                            QuestionSetTopic(course.questions[k], name, NoneValue)[2]]
    /\ history' = Append(history, "set_topic")
    /\ before' = course
    /\ phase' = "tree_operated"
    /\ UNCHANGED <<authored, option, question, target, record>>
    /\ UNCHANGED <<diffVars, imageVars>>

\* course.questions[k].set_explanation(text, by), the call itself
SetExplanationCall ==
    /\ \E k \in 1..Len(course.questions), text \in ExplanationTexts,
          by \in ExplanationAuthors :
          /\ result' = QuestionSetExplanation(course.questions[k], text, by, Now)[1]
          /\ course' = [course EXCEPT !.questions[k] =
                            QuestionSetExplanation(course.questions[k], text, by, Now)[2]]
          /\ target' = <<k, text, by>>
    /\ history' = Append(history, "set_explanation")
    /\ before' = course
    /\ UNCHANGED <<authored, option, question, record>>
    /\ UNCHANGED <<diffVars, imageVars>>

SetExplanation ==
    /\ Operating
    /\ SetExplanationCall
    /\ phase' = "tree_operated"

\* course.replace_question(new_question), the new question built by
\* QuestionData::new with the id of one in the course, or blank with that id
ReplaceQuestionCall ==
    /\ \E k \in 1..Len(course.questions), shape \in QuestionShapes \cup {BlankShape} :
          /\ question' = AuthoredQuestion(course.questions[k].id, shape)
          /\ result' = CourseReplaceQuestion(course, question')[1]
          /\ course' = CourseReplaceQuestion(course, question')[2]
    /\ history' = Append(history, "replace_question")
    /\ before' = course
    /\ UNCHANGED <<authored, option, target, record>>
    /\ UNCHANGED <<diffVars, imageVars>>

ReplaceQuestion ==
    /\ Operating
    /\ ReplaceQuestionCall
    /\ phase' = "tree_operated"

\* course.process()
ProcessTree ==
    /\ Operating
    /\ result' = CourseProcess(course)[1]
    /\ course' = CourseProcess(course)[2]
    /\ history' = Append(history, "process")
    /\ before' = course
    /\ phase' = "tree_operated"
    /\ UNCHANGED <<authored, option, question, target, record>>
    /\ UNCHANGED <<diffVars, imageVars>>

OperationsNext == SetTopic \/ SetExplanation \/ ReplaceQuestion \/ ProcessTree

SpecOperations == OperationsInit /\ [][OperationsNext]_vars

\* the same courses under one or two calls of set_explanation and
\* replace_question, in any order and on any question
Edited == IF phase = "tree_built" THEN "tree_edited" ELSE "tree_edited_again"

Editing == phase \in {"tree_built", "tree_edited"} /\ result = "ok"

EditExplanation ==
    /\ Editing
    /\ SetExplanationCall
    /\ phase' = Edited

EditQuestion ==
    /\ Editing
    /\ ReplaceQuestionCall
    /\ phase' = Edited

EditsNext == EditExplanation \/ EditQuestion

SpecEdits == OperationsInit /\ [][EditsNext]_vars

OptionHashIsFresh(o) == o.hash = Blake3(OptionToBytes(o))

QuestionHashesAreFresh(q) ==
    /\ q.hash = Blake3(QuestionToBytes(q))
    /\ \A j \in 1..Len(q.question_options) : OptionHashIsFresh(q.question_options[j])
    /\ q.explanation # NoExplanation =>
          q.explanation[1].hash = Blake3(ExplanationToBytes(q.explanation[1]))

\* C11: after any sequence of successful operations on a course tree (new,
\* process, replace_question, set_topic, set_explanation) the stored fingerprint
\* of the course, of every question, of every option and of every explanation
\* is the digest of the canonical bytes of its current fields.
C11_NoStaleFingerprint ==
    (phase \in {"tree_built", "tree_operated"} /\ result = "ok") =>
        /\ course.hash = Blake3(CourseToBytes(course))
        /\ \A k \in 1..Len(course.questions) : QuestionHashesAreFresh(course.questions[k])

\* the same for the questions, their options and explanations only
C11_QuestionsNotStale ==
    (phase \in {"tree_built", "tree_operated"} /\ result = "ok") =>
        \A k \in 1..Len(course.questions) : QuestionHashesAreFresh(course.questions[k])

\* C28: after replace_question(q), q built with the id of a question of the
\* course, the call has returned Ok, the course's fingerprint is the digest of
\* its bytes as they now are, every question with another id is in the course
\* exactly as before (content and fingerprint), nothing but the questions and
\* the fingerprint of the course changed, and the question with the id of q
\* is q itself, or is gone when q is blank.
C28_ReplaceQuestionFrame ==
    (phase \in {"tree_edited", "tree_edited_again"}
     /\ history[Len(history)] = "replace_question") =>
        LET others == {k \in 1..Len(before.questions) : before.questions[k].id # question.id}
            same == {k \in 1..Len(course.questions) : course.questions[k].id = question.id}
        IN  /\ result = "ok"
            /\ course.hash = Blake3(CourseToBytes(course))
            /\ [course EXCEPT !.questions = <<>>, !.hash = EmptyHash]
                  = [before EXCEPT !.questions = <<>>, !.hash = EmptyHash]
            /\ \A k \in others :
                  \E j \in 1..Len(course.questions) :
                      /\ course.questions[j].id = before.questions[k].id
                      /\ course.questions[j] = before.questions[k]
            /\ Len(course.questions) = Cardinality(others) + Cardinality(same)
            /\ Cardinality(others) = Len(before.questions) - 1
            /\ IF QuestionIsBlank(question) THEN same = {}
               ELSE /\ Cardinality(same) = 1
                    /\ \A j \in same : course.questions[j] = question

\* one of the two questions of a course was replaced by a blank question and
\* is gone; the other one is still there
C28_Witness ==
    /\ phase = "tree_edited"
    /\ history = <<"replace_question">>
    /\ QuestionIsBlank(question)
    /\ Len(before.questions) = 2
    /\ Len(course.questions) = 1
    /\ course.questions[1].id # question.id
    /\ course.hash # before.hash

\* C30: set_explanation with a text or an author that is empty once trimmed
\* returns an error and changes nothing: the question keeps its previous
\* explanation, its other fields, its options and its fingerprint, and so
\* does the course around it; with a text and an author it returns Ok.
C30_FailedSetExplanationKeepsQuestion ==
    (phase \in {"tree_edited", "tree_edited_again"}
     /\ history[Len(history)] = "set_explanation") =>
        IF Trim(target[2]) = <<>> \/ Trim(target[3]) = <<>>
        THEN /\ result = "err"
             /\ course.questions[target[1]] = before.questions[target[1]]
             /\ course = before
        ELSE result = "ok"

\* a question that was given an explanation is then given one with the text
\* " ": the call fails and the first explanation is still there
C30_Witness ==
    /\ phase = "tree_edited_again"
    /\ history = <<"set_explanation", "set_explanation">>
    /\ result = "err"
    /\ target[2] = <<Ch.space>>
    /\ target[3] = ExplanationAuthor
    /\ course.questions[target[1]].explanation # NoExplanation
    /\ course.questions[target[1]].explanation[1].text = <<Ch.a>>
    /\ course = before

(***************************************************************************)
(* Scenario: the topic and source records of a course are collected for    *)
(* their collections (CourseData::question_topics, question_sources)       *)
(***************************************************************************)
\* CourseData::question_topics: the HashSet of the topic records
question_topics(c) == {c.questions[k].topic : k \in 1..Len(c.questions)}

\* CourseData::question_sources: the HashSet of the source records
question_sources(c) == {c.questions[k].source : k \in 1..Len(c.questions)}

\* sources that QuestionSourceData::new accepts: no date, the name and the
\* variant absent, "!" or "a"
KeySources ==
    {SourceProcess(QuestionSourceData(CourseKey, type, name, NoneValue, variant))[2] :
        type \in {"other", "self_assessment"},
        name \in {NoString, SomeString(EmptyFieldKeyValue), SomeString(<<Ch.a>>)},
        variant \in {NoString, SomeString(EmptyFieldKeyValue)}}

\* topic names handed to set_topic: "_", "a" and "A."
KeyTopicNames == {DefaultTopicName, <<Ch.a>>, <<Ch.A, Ch.period>>}

\* a question built by QuestionData::new with the source, then given the topic
KeyQuestion(id, source, name) ==
    QuestionSetTopic(
        QuestionProcess(QuestionData(id, CourseKey, source, <<Ch.A, Ch.question>>, <<>>,
            <<OptionProcess(QuestionOptionData(10 * id + 1, id, <<Ch.B, Ch.period>>,
                                               FALSE, 0, FALSE))[2],
              OptionProcess(QuestionOptionData(10 * id + 2, id, <<Ch.A, Ch.period>>,
                                               TRUE, 1, FALSE))[2]>>))[2],
        name, NoneValue)[2]

KeysInit ==
    /\ DiffIdle
    /\ ImageIdle
    /\ \E s1 \in KeySources, s2 \in KeySources,
          n1 \in KeyTopicNames, n2 \in KeyTopicNames :
          /\ authored = <<s1, s2, n1, n2>>
          /\ course = CourseProcess(CourseData(CourseKey, <<Ch.a>>, <<Ch.b>>, 0, <<>>,
                          <<KeyQuestion(2, s1, n1), KeyQuestion(4, s2, n2)>>))[2]
    /\ option = None /\ question = None
    /\ result = "ok"
    /\ before = None /\ target = None /\ history = <<>>
    /\ record = [topics |-> {}, sources |-> {}]
    /\ phase = "course_built"

\* course.question_topics()
QuestionTopics ==
    /\ phase = "course_built"
    /\ record' = [record EXCEPT !.topics = question_topics(course)]
    /\ phase' = "topics_collected"
    /\ UNCHANGED <<authored, option, question, course, result, before, target, history>>
    /\ UNCHANGED <<diffVars, imageVars>>

\* course.question_sources()
QuestionSources ==
    /\ phase = "topics_collected"
    /\ record' = [record EXCEPT !.sources = question_sources(course)]
    /\ phase' = "sources_collected"
    /\ UNCHANGED <<authored, option, question, course, result, before, target, history>>
    /\ UNCHANGED <<diffVars, imageVars>>

KeysNext == QuestionTopics \/ QuestionSources

SpecKeys == KeysInit /\ [][KeysNext]_vars

\* C29: no two different topic records and no two different source records
\* collected from a course have the same composite key.
C29_KeysUnique ==
    /\ \A a, b \in record.topics : a # b => TopicKey(a) # TopicKey(b)
    /\ \A a, b \in record.sources : a # b => SourceKey(a) # SourceKey(b)

\* C29, what the code keeps: the topic records of a course have different keys
C29_TopicKeysUnique ==
    \A a, b \in record.topics : a # b => TopicKey(a) # TopicKey(b)

(***************************************************************************)
(* Scenario: a question source is built and processed                      *)
(***************************************************************************)
SourceTypes == {"exam", "partial", "self_assessment", "other"}

SourceNames ==
    {NoString, SomeString(<<Ch.space, Ch.b, Ch.space>>), SomeString(<<Ch.space>>),
     SomeString(<<>>)}

SourceDates == {NoneValue, "2023-07-01", "2024-07-01"}

SourceVariants == {NoString, SomeString(<<Ch.a>>)}

SourceInit ==
    /\ DiffIdle
    /\ ImageIdle
    /\ \E type \in SourceTypes, name \in SourceNames, date \in SourceDates,
          variant \in SourceVariants :
              authored = QuestionSourceData(CourseKey, type, name, date, variant)
    /\ record = authored
    /\ option = None /\ question = None /\ course = None
    /\ result = None /\ before = None /\ target = None /\ history = <<>>
    /\ phase = "source_built"

\* QuestionSourceData::process (the call QuestionSourceData::new makes)
ProcessSource ==
    /\ phase = "source_built"
    /\ result' = SourceProcess(record)[1]
    /\ record' = SourceProcess(record)[2]
    /\ phase' = "source_processed"
    /\ UNCHANGED <<authored, option, question, course, before, target, history>>
    /\ UNCHANGED <<diffVars, imageVars>>

\* a second QuestionSourceData::process on the same source
ProcessSourceAgain ==
    /\ phase = "source_processed"
    /\ result' = SourceProcess(record)[1]
    /\ record' = SourceProcess(record)[2]
    /\ phase' = "source_reprocessed"
    /\ UNCHANGED <<authored, option, question, course, before, target, history>>
    /\ UNCHANGED <<diffVars, imageVars>>

SourceNext == ProcessSource \/ ProcessSourceAgain

SpecSource == SourceInit /\ [][SourceNext]_vars

\* C13: validation of a question source fails exactly when the type is Exam or
\* Partial and there is no date, or the type is Partial and there is no name;
\* SelfAssessment and Other sources pass with neither date nor name.
C13_SourceCheckExact ==
    phase = "source_processed" =>
        /\ result = "err" <=>
              \/ (authored.type \in {"exam", "partial"} /\ authored.date = NoneValue)
              \/ (authored.type = "partial" /\ authored.name = NoString)
        /\ authored.type \in {"self_assessment", "other"} => result = "ok"

\* a Partial source with a date and no name was refused
C13_Witness ==
    /\ phase = "source_processed"
    /\ authored.type = "partial"
    /\ authored.date # NoneValue
    /\ authored.name = NoString
    /\ result = "err"

(***************************************************************************)
(* Scenario: format_text is applied to a text                              *)
(***************************************************************************)
FormatAlphabet ==
    {Ch.space, Ch.tab, Ch.period, Ch.colon, Ch.question, Ch.percent, Ch.five,
     Ch.lquote, Ch.rquote, Ch.a}

\* " test  “text”   12.34%  . " (tests::test_format_text)
ExampleText ==
    <<32, 116, 101, 115, 116, 32, 32, 8220, 116, 101, 120, 116, 8221, 32, 32, 32,
      49, 50, 46, 51, 52, 37, 32, 32, 46, 32>>

\* "test \"text\" 12.34 %."
ExampleTextFormatted ==
    <<116, 101, 115, 116, 32, 34, 116, 101, 120, 116, 34, 32,
      49, 50, 46, 51, 52, 32, 37, 46>>

InputTexts ==
    UNION {[1..n -> FormatAlphabet] : n \in 0..MaxTextLen} \cup {ExampleText}

TextInit ==
    /\ DiffIdle
    /\ ImageIdle
    /\ authored \in InputTexts
    /\ record = authored
    /\ option = None /\ question = None /\ course = None
    /\ result = None /\ before = None /\ target = None /\ history = <<>>
    /\ phase = "text_given"

\* format_text(text)
FormatText ==
    /\ phase = "text_given"
    /\ record' = format_text(record)
    /\ phase' = "text_formatted"
    /\ UNCHANGED <<authored, option, question, course, result, before, target, history>>
    /\ UNCHANGED <<diffVars, imageVars>>

\* format_text on its own result
FormatTextAgain ==
    /\ phase = "text_formatted"
    /\ record' = format_text(record)
    /\ phase' = "text_reformatted"
    /\ UNCHANGED <<authored, option, question, course, result, before, target, history>>
    /\ UNCHANGED <<diffVars, imageVars>>

TextNext == FormatText \/ FormatTextAgain

SpecText == TextInit /\ [][TextNext]_vars

Count(t, chars) == Cardinality({i \in 1..Len(t) : t[i] \in chars})

\* a digit directly followed by '%'
Adjacent(t) ==
    Cardinality({i \in 1..(Len(t) - 1) : IsDigit(t[i]) /\ t[i + 1] = Ch.percent})

\* a digit, one space, '%'
Separated(t) ==
    Cardinality({i \in 1..(Len(t) - 2) :
        IsDigit(t[i]) /\ t[i + 1] = Ch.space /\ t[i + 2] = Ch.percent})

\* C17: for every text the result of format_text has no leading or trailing
\* whitespace, no run of two or more whitespace characters, no curly double
\* quote (each one became a straight one), no whitespace right before a final
\* '.', ':' or '?', and no '%' right after a digit: every digit that was
\* directly followed by '%' is now separated from it by one space; the text
\* of tests::test_format_text becomes 'test "text" 12.34 %.'.
C17_FormatTextResult ==
    phase = "text_formatted" =>
        /\ Trimmed(record)
        /\ NoWhitespaceRun(record)
        /\ Count(record, {Ch.lquote, Ch.rquote}) = 0
        /\ Count(record, {Ch.quote}) = Count(authored, {Ch.quote, Ch.lquote, Ch.rquote})
        /\ (Len(record) >= 2 /\ record[Len(record)] \in {Ch.period, Ch.colon, Ch.question})
              => ~IsWhitespace(record[Len(record) - 1])
        /\ \A i \in 1..(Len(record) - 1) : ~(IsDigit(record[i]) /\ record[i + 1] = Ch.percent)
        /\ Separated(record) >= Adjacent(authored)
        /\ authored = ExampleText => record = ExampleTextFormatted

\* a text with a whitespace run, a curly quote, a percentage and whitespace
\* before its final period has been formatted
C17_Witness ==
    /\ phase = "text_formatted"
    /\ authored = ExampleText
    /\ record = ExampleTextFormatted

(***************************************************************************)
(* Scenario: a topic is built and its name formatted                       *)
(***************************************************************************)
\* " topic 1. " (tests::test_format)
ExampleTopicName == <<32, 116, 111, 112, 105, 99, 32, 49, 46, 32>>

\* "Topic 1"
ExampleTopicFormatted == <<84, 111, 112, 105, 99, 32, 49>>

AuthoredTopicNames == BoundedTexts \cup {ExampleTopicName}

TopicInit ==
    /\ DiffIdle
    /\ ImageIdle
    /\ authored \in AuthoredTopicNames
    /\ record = None
    /\ option = None /\ question = None /\ course = None
    /\ result = None /\ before = None /\ target = None /\ history = <<>>
    /\ phase = "topic_given"

\* QuestionTopicData::new(course_key, name)
NewTopic ==
    /\ phase = "topic_given"
    /\ record' = QuestionTopicDataNew(CourseKey, authored)
    /\ result' = "ok"
    /\ phase' = "topic_formatted"
    /\ UNCHANGED <<authored, option, question, course, before, target, history>>
    /\ UNCHANGED <<diffVars, imageVars>>

\* QuestionTopicData::format on a topic that new has formatted
FormatTopicAgain ==
    /\ phase = "topic_formatted"
    /\ before' = record
    /\ record' = [record EXCEPT !.name = TopicFormat(@)]
    /\ phase' = "topic_reformatted"
    /\ UNCHANGED <<authored, option, question, course, result, target, history>>
    /\ UNCHANGED <<diffVars, imageVars>>

TopicNext == NewTopic \/ FormatTopicAgain

SpecTopic == TopicInit /\ [][TopicNext]_vars

\* C18: after QuestionTopicData::new the stored name is whitespace-normalized,
\* its first character is upper-cased and it does not end with a period
\* (" topic 1. " becomes "Topic 1"); formatting the stored name again leaves
\* it unchanged.
C18_TopicNameCanonical ==
    /\ phase = "topic_formatted" =>
          LET name == record.name
          IN  /\ Trimmed(name)
              /\ NoWhitespaceRun(name)
              /\ name # <<>> => name[1] = Uppercase(name[1])
              /\ name # <<>> => name[Len(name)] # Ch.period
              /\ authored = ExampleTopicName => name = ExampleTopicFormatted
    /\ phase = "topic_reformatted" => record = before

\* C18, what the code keeps for every name: the stored name is trimmed, has no
\* whitespace run and an ASCII first letter is upper-cased; the example holds
C18_TopicNameWhitespaceNormalized ==
    phase = "topic_formatted" =>
        LET name == record.name
        IN  /\ Trimmed(name)
            /\ NoWhitespaceRun(name)
            /\ name # <<>> => name[1] = AsciiUppercase(name[1])
            /\ authored = ExampleTopicName => name = ExampleTopicFormatted

(***************************************************************************)
(* Scenario: a bundle, an icon or an explanation is built by its `new`     *)
(***************************************************************************)
\* data.process()?; Ok(data): the entity when process returned Ok, nothing
\* when it returned an error
NewResult(r) == IF r[1] = "ok" THEN <<r[2]>> ELSE <<>>

RecordKeys == {<<Ch.a>>, <<Ch.space, Ch.a, Ch.tab>>}

RecordNames == {<<Ch.a>>, <<Ch.space, Ch.a, Ch.space>>, <<Ch.space>>, <<>>}

\* the arguments of BundleData::new, as the struct it builds before process
AuthoredBundles ==
    {BundleData(key, name, course_keys, discount, image_file_name) :
        key \in RecordKeys, name \in RecordNames,
        course_keys \in {<<>>, <<CourseKey>>},
        discount \in {-1, 0, 1},
        image_file_name \in {NoFileName, SomeFileName(<<Ch.a, Ch.period, Ch.b>>)}}

\* the arguments of IconData::new, as the struct it builds before process
AuthoredIcons ==
    {IconData(key, is_initial, description, price_in_uyu, <<Ch.a, Ch.period, Ch.b>>) :
        key \in RecordKeys, is_initial \in BOOLEAN,
        description \in {NoString, SomeString(<<Ch.space, Ch.a, Ch.space, Ch.space, Ch.b>>)},
        price_in_uyu \in {NoDecimal, SomeDecimal(-1), SomeDecimal(0), SomeDecimal(1)}}

\* the arguments of ExplanationData::new, as the struct it builds before process
AuthoredExplanations ==
    {[text |-> text, by |-> by, date |-> Now, hash |-> EmptyHash] :
        text \in RecordNames, by \in RecordNames}

RecordInit ==
    /\ DiffIdle
    /\ ImageIdle
    /\ \/ authored \in AuthoredBundles /\ phase = "bundle_given"
       \/ authored \in AuthoredIcons /\ phase = "icon_given"
       \/ authored \in AuthoredExplanations /\ phase = "explanation_given"
    /\ record = <<>>
    /\ option = None /\ question = None /\ course = None
    /\ result = None /\ before = None /\ target = None /\ history = <<>>

\* BundleData::new
NewBundle ==
    /\ phase = "bundle_given"
    /\ result' = BundleProcess(authored)[1]
    /\ record' = NewResult(BundleProcess(authored))
    /\ phase' = "bundle_new"
    /\ UNCHANGED <<authored, option, question, course, before, target, history>>
    /\ UNCHANGED <<diffVars, imageVars>>

\* IconData::new
NewIcon ==
    /\ phase = "icon_given"
    /\ result' = IconProcess(authored)[1]
    /\ record' = NewResult(IconProcess(authored))
    /\ phase' = "icon_new"
    /\ UNCHANGED <<authored, option, question, course, before, target, history>>
    /\ UNCHANGED <<diffVars, imageVars>>

\* ExplanationData::new
NewExplanation ==
    /\ phase = "explanation_given"
    /\ result' = ExplanationProcess(authored)[1]
    /\ record' = NewResult(ExplanationProcess(authored))
    /\ phase' = "explanation_new"
    /\ UNCHANGED <<authored, option, question, course, before, target, history>>
    /\ UNCHANGED <<diffVars, imageVars>>

RecordNext == NewBundle \/ NewIcon \/ NewExplanation

SpecRecord == RecordInit /\ [][RecordNext]_vars

(***************************************************************************)
(* Scenario: two entities of one kind are built by `new` from two argument *)
(* lists, to compare their fingerprints                                    *)
(***************************************************************************)
PairNames == {<<Ch.a>>, <<Ch.a, Ch.b>>}

PairLists == {<<>>, <<<<Ch.b>>>>, <<<<Ch.a, Ch.b>>>>, <<<<Ch.a>>, <<Ch.b>>>>}

PairBundles ==
    {BundleData(<<Ch.a>>, name, course_keys, discount, image_file_name) :
        name \in PairNames, course_keys \in PairLists, discount \in {1, 2},
        image_file_name \in {NoFileName, SomeFileName(<<Ch.a, Ch.period, Ch.b>>)}}

\* (the icons differ in description and price, the courses in price and tags:
\* byte sequences of equal length then carry labels at the same positions)
PairIcons ==
    {IconData(<<Ch.a>>, TRUE, description, price_in_uyu, <<Ch.a, Ch.period, Ch.b>>) :
        description \in {NoString, SomeString(<<>>), SomeString(<<Ch.a>>)},
        price_in_uyu \in {SomeDecimal(1), SomeDecimal(2)}}

PairExplanations ==
    {[text |-> text, by |-> by, date |-> Now, hash |-> EmptyHash] :
        text \in PairNames, by \in {<<Ch.b>>, <<Ch.b, Ch.b>>}}

PairCourses ==
    {CourseData(CourseKey, <<Ch.a>>, <<Ch.b>>, price, tags, <<>>) :
        price \in {0, 1}, tags \in PairLists}

PairInit ==
    /\ DiffIdle
    /\ ImageIdle
    /\ \/ authored \in PairBundles \X PairBundles /\ phase = "bundles_given"
       \/ authored \in PairIcons \X PairIcons /\ phase = "icons_given"
       \/ authored \in PairExplanations \X PairExplanations /\ phase = "explanations_given"
       \/ authored \in PairCourses \X PairCourses /\ phase = "courses_given"
    /\ record = <<>>
    /\ option = None /\ question = None /\ course = None
    /\ result = None /\ before = None /\ target = None /\ history = <<>>

\* BundleData::new, twice
NewBundles ==
    /\ phase = "bundles_given"
    /\ record' = <<NewResult(BundleProcess(authored[1])), NewResult(BundleProcess(authored[2]))>>
    /\ phase' = "pair_built"
    /\ UNCHANGED <<authored, option, question, course, result, before, target, history>>
    /\ UNCHANGED <<diffVars, imageVars>>

\* IconData::new, twice
NewIcons ==
    /\ phase = "icons_given"
    /\ record' = <<NewResult(IconProcess(authored[1])), NewResult(IconProcess(authored[2]))>>
    /\ phase' = "pair_built"
    /\ UNCHANGED <<authored, option, question, course, result, before, target, history>>
    /\ UNCHANGED <<diffVars, imageVars>>

\* ExplanationData::new, twice
NewExplanations ==
    /\ phase = "explanations_given"
    /\ record' = <<NewResult(ExplanationProcess(authored[1])),
                   NewResult(ExplanationProcess(authored[2]))>>
    /\ phase' = "pair_built"
    /\ UNCHANGED <<authored, option, question, course, result, before, target, history>>
    /\ UNCHANGED <<diffVars, imageVars>>

\* CourseData::new, twice
NewCourses ==
    /\ phase = "courses_given"
    /\ record' = <<NewResult(CourseProcess(authored[1])), NewResult(CourseProcess(authored[2]))>>
    /\ phase' = "pair_built"
    /\ UNCHANGED <<authored, option, question, course, result, before, target, history>>
    /\ UNCHANGED <<diffVars, imageVars>>

PairNext == NewBundles \/ NewIcons \/ NewExplanations \/ NewCourses

SpecPair == PairInit /\ [][PairNext]_vars

\* the fields of an entity without its fingerprint
Content(e) == [e EXCEPT !.hash = EmptyHash]

\* C22: two canonicalized entities of one kind that differ in a content field
\* have different fingerprints, also when the difference only moves the
\* boundary between the elements of a list, moves characters between two
\* adjacent text fields, or is an optional field absent or present but empty.
C22_ContentChangeChangesFingerprint ==
    (phase = "pair_built" /\ record[1] # <<>> /\ record[2] # <<>>) =>
        (Content(record[1][1]) # Content(record[2][1])
            => record[1][1].hash # record[2][1].hash)

\* C22, what the code keeps: a difference in a scalar field (a discount, a
\* price) changes the fingerprint
C22_ScalarChangeChangesFingerprint ==
    (phase = "pair_built" /\ record[1] # <<>> /\ record[2] # <<>>) =>
        LET a == record[1][1]
            b == record[2][1]
        IN  /\ ("discount" \in DOMAIN a /\ a.discount # b.discount) => a.hash # b.hash
            /\ ("price_in_uyu" \in DOMAIN a /\ a.price_in_uyu # b.price_in_uyu)
                  => a.hash # b.hash

(***************************************************************************)
(* The three scenarios together: an option, a question or a course is      *)
(* built and taken through its calls                                       *)
(***************************************************************************)
TreeInit == OptionInit \/ QuestionInit \/ CourseInit

TreeNext == OptionNext \/ QuestionNext \/ CourseNext

SpecTree == TreeInit /\ [][TreeNext]_vars

\* C9: a second process on an option, a question or a course whose first
\* process succeeded returns Ok again and changes no field of it: text, tags,
\* children and their order, and the fingerprint stay as they were.
C9_ProcessIdempotent ==
    [][/\ (ProcessOptionAgain /\ result = "ok") => (result' = "ok" /\ option' = option)
       /\ (ProcessQuestionAgain /\ result = "ok") => (result' = "ok" /\ question' = question)
       /\ (ProcessCourseAgain /\ result = "ok") => (result' = "ok" /\ course' = course)]_vars

\* a course whose first process trimmed the name and removed a question has
\* been processed a second time
C9_Witness ==
    /\ phase = "course_reprocessed"
    /\ result = "ok"
    /\ course.name # authored.name
    /\ Len(course.questions) < Len(authored.questions)
    /\ Len(course.questions) >= 2
    /\ course.hash # EmptyHash

(***************************************************************************)
(* Every entity of the content tree and of the independent collections,    *)
(* each built and taken through its calls                                  *)
(***************************************************************************)
EntitiesInit == TreeInit \/ RecordInit

EntitiesNext == TreeNext \/ RecordNext

SpecEntities == EntitiesInit /\ [][EntitiesNext]_vars

\* C14: a course that has a key, a name and a short name is rejected exactly
\* when its price is negative (zero is accepted); a bundle is rejected when its
\* discount is zero or negative; an icon is rejected when a price is present
\* and is zero or negative, and accepted when the price is absent.
C14_MonetaryValidation ==
    /\ (phase = "course_processed" /\ authored.key # <<>>
        /\ Trim(authored.name) # <<>> /\ Trim(authored.short_name) # <<>>)
          => (result = "err" <=> authored.price_in_uyu < 0)
    /\ phase = "bundle_new" =>
          /\ authored.discount <= 0 => (result = "err" /\ record = <<>>)
          /\ (authored.discount > 0 /\ Trim(authored.name) # <<>>) => result = "ok"
    /\ phase = "icon_new" =>
          /\ (authored.price_in_uyu # NoDecimal /\ authored.price_in_uyu[1] <= 0)
                => (result = "err" /\ record = <<>>)
          /\ authored.price_in_uyu = NoDecimal => result = "ok"
          /\ (authored.price_in_uyu # NoDecimal /\ authored.price_in_uyu[1] > 0)
                => result = "ok"

\* a named bundle with discount zero has been handed to BundleData::new and
\* was rejected
C14_Witness ==
    /\ phase = "bundle_new"
    /\ Trim(authored.name) # <<>>
    /\ authored.discount = 0
    /\ result = "err"
    /\ record = <<>>

\* C16: when validation fails inside process, process returns an error and
\* the stored fingerprint of the entity stays exactly what it was before the
\* call (option, question, course; bundle, icon and explanation are processed
\* by their `new` only), and a `new` that hits the failure returns no entity.
C16_FailedProcessKeepsFingerprint ==
    [][/\ ((ProcessOption \/ ProcessOptionAgain) /\ result' = "err")
              => option'.hash = option.hash
       /\ ((ProcessQuestion \/ ProcessQuestionAgain) /\ result' = "err")
              => question'.hash = question.hash
       /\ ((ProcessCourse \/ ProcessCourseAgain \/ ReprocessCourse \/ ProcessEditedCourse)
             /\ result' = "err")
              => course'.hash = course.hash
       /\ (ReprocessQuestion /\ result' = "err")
              => QuestionWithId(course', target[1]).hash
                     = QuestionWithId(course, target[1]).hash
       /\ (NewBundle /\ result' = "err")
              => (record' = <<>> /\ BundleProcess(authored)[2].hash = authored.hash)
       /\ (NewIcon /\ result' = "err")
              => (record' = <<>> /\ IconProcess(authored)[2].hash = authored.hash)
       /\ (NewExplanation /\ result' = "err")
              => (record' = <<>> /\ ExplanationProcess(authored)[2].hash = authored.hash)]_vars

\* a course that carried a fingerprint was given a negative price and processed:
\* process failed and the fingerprint is the one of before, no longer the
\* digest of the course's bytes
C16_Witness ==
    /\ phase = "course_after_price_edit"
    /\ result = "err"
    /\ course.hash # EmptyHash
    /\ course.hash = before.hash
    /\ course.hash # Blake3(CourseToBytes(course))

(***************************************************************************)
(* Asset Rename Coordinator (spec.md 4.3; the WithImage implementations    *)
(* are src/src/data.rs)                                                    *)
(***************************************************************************)
\* Option<PathBuf>: no reference, or one file name
NoImage == <<>>
SomeImage(file_name) == <<file_name>>

\* Uuid::to_string: hexadecimal digits and hyphens; one digit stands for them
UuidString(id) == <<48 + id>>

\* the position of the last period that separates a stem from an extension:
\* a period that opens the file name separates nothing
LastPeriod(file_name) ==
    LET at == {i \in 2..Len(file_name) : file_name[i] = Ch.period}
    IN  IF at = {} THEN 0 ELSE CHOOSE i \in at : \A j \in at : j <= i

\* Path::file_stem
FileStem(file_name) ==
    IF LastPeriod(file_name) = 0 THEN file_name
    ELSE SubSeq(file_name, 1, LastPeriod(file_name) - 1)

\* Path::extension, with its period; nothing when the name has none
FileExtension(file_name) ==
    IF LastPeriod(file_name) = 0 THEN <<>>
    ELSE SubSeq(file_name, LastPeriod(file_name), Len(file_name))

\* WithImage::current_image_file_name
current_image_file_name(e) == e.image_file_name

CanonicalNameFromCourseKey(e) == IF e.kind = "course" THEN e.key ELSE e.course_key

\* WithImage::canonical_image_file_name: the key of a course, the id of a question
canonical_image_file_name(e) == IF e.kind = "course" THEN e.key ELSE UuidString(e.id)

\* WithImage::replace_image_file_name
replace_image_file_name(e, new_file_name) ==
    [e EXCEPT !.image_file_name = SomeImage(new_file_name)]

\* whether format_image asks for a rename
NeedsRename(e) ==
    /\ current_image_file_name(e) # NoImage
    /\ FileStem(current_image_file_name(e)[1]) # canonical_image_file_name(e)

\* the file name format_image renames to: canonical name, original extension
RenamedFileName(e) ==
    canonical_image_file_name(e) \o FileExtension(current_image_file_name(e)[1])

\* WithImage::format_image: <<the entity afterwards, the renames requested>>
format_image(e) ==
    IF NeedsRename(e)
    THEN <<replace_image_file_name(e, RenamedFileName(e)),
           <<<<current_image_file_name(e)[1], RenamedFileName(e)>>>>>>
    ELSE <<e, <<>>>>

MaxFileNameLen == 4
FileNameAlphabet == {Ch.a, 48 + 1, Ch.period}

\* file names: not empty, and neither "." nor ".."
FileNames ==
    {n \in UNION {[1..k -> FileNameAlphabet] : k \in 1..MaxFileNameLen} :
        \E i \in 1..Len(n) : n[i] # Ch.period}

\* "old_name.png" of spec.md 8 ("b.5" stands for it) and "math101" ("a")
ExampleFileName == <<Ch.b, Ch.period, Ch.five>>
ExampleKey == <<Ch.a>>

ImageReferences ==
    {NoImage} \cup {SomeImage(n) : n \in FileNames \cup {ExampleFileName}}

ImageEntities ==
    {[kind |-> "course", key |-> key, image_file_name |-> image] :
        key \in {ExampleKey, <<Ch.a, Ch.a>>}, image \in ImageReferences}
    \cup {[kind |-> "question", id |-> id, course_key |-> ExampleKey,
           image_file_name |-> image] : id \in 1..2, image \in ImageReferences}

ImageInit ==
    /\ DiffIdle
    /\ authored \in ImageEntities
    /\ entity = authored
    /\ renames = <<>>
    /\ option = None /\ question = None /\ course = None
    /\ result = None /\ before = None /\ target = None /\ history = <<>>
    /\ record = None
    /\ phase = "image_built"

\* self.format_image(images_path) of a canonicalization pass
FormatImage ==
    /\ phase = "image_built"
    /\ entity' = format_image(entity)[1]
    /\ renames' = renames \o format_image(entity)[2]
    /\ phase' = "image_formatted"
    /\ UNCHANGED <<treeVars, diffVars>>

\* the same call in a second canonicalization pass
FormatImageAgain ==
    /\ phase = "image_formatted"
    /\ entity' = format_image(entity)[1]
    /\ renames' = renames \o format_image(entity)[2]
    /\ phase' = "image_reformatted"
    /\ UNCHANGED <<treeVars, diffVars>>

ImageNext == FormatImage \/ FormatImageAgain

SpecImage == ImageInit /\ [][ImageNext]_vars

\* C10: a pass requests a rename exactly when the entity has an image reference
\* whose file stem is not its canonical name (the key of a course, the id of a
\* question); the new reference is the canonical name with the original
\* extension and is stored on the entity; otherwise nothing is requested and
\* the entity is untouched; a second pass requests nothing more.
C10_RenameExact ==
    LET canonical == IF authored.kind = "course" THEN authored.key
                     ELSE UuidString(authored.id)
        old == authored.image_file_name
        drifted == old # NoImage /\ FileStem(old[1]) # canonical
        new == canonical \o FileExtension(old[1])
        expected == IF drifted THEN <<<<old[1], new>>>> ELSE <<>>
    IN  /\ phase \in {"image_formatted", "image_reformatted"} =>
              /\ renames = expected
              /\ entity.image_file_name = (IF drifted THEN SomeImage(new) ELSE old)
              /\ [entity EXCEPT !.image_file_name = old] = authored
        /\ (phase = "image_formatted" /\ authored = [kind |-> "course", key |-> ExampleKey,
                image_file_name |-> SomeImage(ExampleFileName)]) =>
              entity.image_file_name = SomeImage(<<Ch.a, Ch.period, Ch.five>>)

\* "old_name.png" was renamed to "math101.png" and the second pass asked for nothing
C10_Witness ==
    /\ phase = "image_reformatted"
    /\ authored.kind = "course"
    /\ authored.image_file_name = SomeImage(ExampleFileName)
    /\ renames = <<<<ExampleFileName, <<Ch.a, Ch.period, Ch.five>>>>>>
    /\ entity.image_file_name = SomeImage(<<Ch.a, Ch.period, Ch.five>>)

(***************************************************************************)
(* The course load pipeline of the first schema generation                 *)
(* (src/src/data.rs, src/src/helpers.rs): every entry of the data          *)
(* directory is loaded, cleaned, formatted (its images renamed), sorted,   *)
(* deduplicated, checked, fingerprinted and written back.                  *)
(***************************************************************************)
\* format_text of src/src/helpers.rs: trim, then collapse whitespace runs
DataFormatText(text) == CollapseWhitespace(Trim(text))

\* the value a hash has after hashable_data panicked on an unset
\* back-reference (Option::expect)
PanicHash == <<"panic">>

\* one step of set_data: a back-reference assigned or a hash computed; `at` is
\* the position of the entity below the course
DataEvent(op, kind) == [op |-> op, kind |-> kind, at |-> <<>>]

\* the events of the child at position i
Under(i, events) ==
    [j \in 1..Len(events) |-> [events[j] EXCEPT !.at = <<i>> \o @]]

RECURSIVE Flatten(_)
Flatten(ss) == IF ss = <<>> THEN <<>> ELSE Head(ss) \o Flatten(Tail(ss))

\* [String]::join
RECURSIVE Join(_, _)
Join(ss, sep) ==
    IF ss = <<>> THEN <<>>
    ELSE IF Len(ss) = 1 THEN ss[1]
    ELSE ss[1] \o sep \o Join(Tail(ss), sep)

\* i16::to_be_bytes of a year or of a display order (never negative here)
I16BeBytes(n) == <<n \div 256, n % 256>>

\* the hash strings of the children, as hashable_data appends them
HashesOf(s) == [i \in 1..Len(s) |-> s[i].hash]

\* QuestionOptionData::hashable_data and Hashable::hash_data
DataOptionHash(o) ==
    IF o.question_id = <<>> THEN PanicHash
    ELSE Blake3(UuidBytes(o.id) \o UuidBytes(o.question_id[1]) \o o.text
                \o (IF o.correct THEN <<1>> ELSE <<0>>)
                \o (IF o.explanation = <<>> THEN <<>> ELSE o.explanation[1]))

\* QuestionOptionData::set_data
DataOptionSetData(o, question_id) ==
    LET set == [o EXCEPT !.question_id = <<question_id>>]
    IN  <<[set EXCEPT !.hash = DataOptionHash(set)],
          <<DataEvent("set", "option"), DataEvent("hash", "option")>>>>

\* QuestionData::hashable_data and Hashable::hash_data
DataQuestionHash(q) ==
    IF q.course_key = <<>> THEN PanicHash
    ELSE Blake3(UuidBytes(q.id) \o q.course_key[1] \o q.text
                \o (IF q.image_file_name = <<>> THEN <<>> ELSE q.image_file_name[1])
                \o HashesOf(q.question_options)
                \o q.evaluation \o q.source \o q.asked_at)

\* the mutation of QuestionData::set_data that fingerprints the question first
DataQuestionSetDataHashFirst(q, course_key) ==
    LET hashed == [q EXCEPT !.hash = DataQuestionHash(q)]
        done == [i \in 1..Len(q.question_options) |->
                    DataOptionSetData(q.question_options[i], q.id)]
    IN  <<[hashed EXCEPT !.course_key = <<course_key>>,
                         !.question_options = [i \in 1..Len(done) |-> done[i][1]]],
          <<DataEvent("hash", "question"), DataEvent("set", "question")>>
          \o Flatten([i \in 1..Len(done) |-> Under(i, done[i][2])])>>

\* QuestionData::set_data: <<the question afterwards, the steps taken>>
DataQuestionSetData(q, course_key) ==
    LET set == [q EXCEPT !.course_key = <<course_key>>]
        done == [i \in 1..Len(q.question_options) |->
                    DataOptionSetData(q.question_options[i], q.id)]
        with == [set EXCEPT !.question_options =
                                [i \in 1..Len(done) |-> done[i][1]]]
    IN  <<[with EXCEPT !.hash = DataQuestionHash(with)],
          <<DataEvent("set", "question")>>
          \o Flatten([i \in 1..Len(done) |-> Under(i, done[i][2])])
          \o <<DataEvent("hash", "question")>>>>

\* CourseEvaluationData::hashable_data and Hashable::hash_data
DataEvaluationHash(e) ==
    IF e.course_key = <<>> THEN PanicHash
    ELSE Blake3(e.course_key[1] \o e.name
                \o (IF e.order = <<>> THEN <<>> ELSE I16BeBytes(e.order[1])))

\* CourseEvaluationData::set_data
DataEvaluationSetData(e, course_key) ==
    LET set == [e EXCEPT !.course_key = <<course_key>>]
    IN  <<[set EXCEPT !.hash = DataEvaluationHash(set)],
          <<DataEvent("set", "evaluation"), DataEvent("hash", "evaluation")>>>>

\* CourseData::hashable_data and Hashable::hash_data
DataCourseHash(c) ==
    Blake3(c.key \o c.name \o c.short_name \o Join(c.tags, <<44>>)
           \o (IF c.image_file_name = <<>> THEN <<>> ELSE c.image_file_name[1])
           \o (IF c.year = <<>> THEN <<>> ELSE I16BeBytes(c.year[1]))
           \o (IF c.order = <<>> THEN <<>> ELSE I16BeBytes(c.order[1]))
           \o HashesOf(c.questions) \o HashesOf(c.evaluations))

\* CourseData::set_data: <<the course afterwards, the steps taken>>
DataCourseSetData(c) ==
    LET qs == [i \in 1..Len(c.questions) |-> DataQuestionSetData(c.questions[i], c.key)]
        es == [i \in 1..Len(c.evaluations) |->
                  DataEvaluationSetData(c.evaluations[i], c.key)]
        with == [c EXCEPT !.questions = [i \in 1..Len(qs) |-> qs[i][1]],
                          !.evaluations = [i \in 1..Len(es) |-> es[i][1]]]
    IN  <<[with EXCEPT !.hash = DataCourseHash(with)],
          Flatten([i \in 1..Len(qs) |-> Under(i, qs[i][2])])
          \o Flatten([i \in 1..Len(es) |-> Under(i, es[i][2])])
          \o <<DataEvent("hash", "course")>>>>

\* QuestionData::clean (remove_empty_options)
DataQuestionClean(q) ==
    [q EXCEPT !.question_options = SelectSeq(@, LAMBDA o : o.text # <<>>)]

\* CourseData::clean
DataCourseClean(c) ==
    [c EXCEPT !.questions = [i \in 1..Len(@) |-> DataQuestionClean(@[i])]]

\* the external asset store's rename(old_reference, new_reference) in the
\* directory dir: the request fails when the store fails it (its fail_at-th
\* request) or when no file has the old name; a file with the new name is
\* replaced
StoreRename(store, dir, old, new) ==
    LET ok == /\ Len(store.requests) + 1 # store.fail_at
              /\ <<dir, old>> \in store.files
    IN  [store EXCEPT
            !.files = IF ok THEN (@ \ {<<dir, old>>}) \cup {<<dir, new>>} ELSE @,
            !.requests = Append(@, [dir |-> dir, old |-> old, new |-> new,
                                    ok |-> ok])]

\* WithImage::format_image(images_path) against the asset store: the
\* reference is replaced once the rename succeeded
DataFormatImage(e, dir, store) ==
    IF ~NeedsRename(e) THEN [entity |-> e, store |-> store, ok |-> TRUE]
    ELSE LET after == StoreRename(store, dir, current_image_file_name(e)[1],
                                  RenamedFileName(e))
         IN  IF after.requests[Len(after.requests)].ok
             THEN [entity |-> replace_image_file_name(e, RenamedFileName(e)),
                   store |-> after, ok |-> TRUE]
             ELSE [entity |-> e, store |-> after, ok |-> FALSE]

\* QuestionOptionData::format
DataOptionFormat(o) ==
    LET text == DataFormatText(o.text)
    IN  [o EXCEPT !.text = IF text # <<>> /\ text[Len(text)] = Ch.period
                           THEN text ELSE Append(text, Ch.period)]

\* QuestionData::format: the text, then the image, then the options
DataQuestionFormat(q, dir, store) ==
    LET image == DataFormatImage([q EXCEPT !.text = DataFormatText(@)], dir, store)
    IN  IF ~image.ok THEN image
        ELSE [image EXCEPT !.entity.question_options =
                               [i \in 1..Len(@) |-> DataOptionFormat(@[i])]]

RECURSIVE DataFormatQuestions(_, _, _)
\* the loop of CourseData::format: it returns at the first failing question
DataFormatQuestions(qs, dir, store) ==
    IF qs = <<>> THEN [entity |-> <<>>, store |-> store, ok |-> TRUE]
    ELSE LET first == DataQuestionFormat(Head(qs), dir, store)
         IN  IF ~first.ok
             THEN [first EXCEPT !.entity = <<first.entity>> \o Tail(qs)]
             ELSE LET rest == DataFormatQuestions(Tail(qs), dir, first.store)
                  IN  [rest EXCEPT !.entity = <<first.entity>> \o @]

\* the mutation of CourseData::format that drops the errors of the renames
DataCourseFormatIgnoringErrors(c, dir, store) ==
    LET image == DataFormatImage(c, dir, store)
        qs == DataFormatQuestions(c.questions, dir, image.store)
    IN  [entity |-> [image.entity EXCEPT !.questions = qs.entity],
         store |-> qs.store, ok |-> TRUE]

\* CourseData::format: the course's image, then every question
DataCourseFormat(c, dir, store) ==
    LET image == DataFormatImage(c, dir, store)
    IN  IF ~image.ok THEN image
        ELSE LET qs == DataFormatQuestions(c.questions, dir, image.store)
             IN  [qs EXCEPT !.entity = [image.entity EXCEPT !.questions = qs.entity]]

\* the comparator of CourseData::sort answers Ordering::Less: evaluation,
\* then asked_at (None first), then text, then id
DataQuestionLess(a, b) ==
    IF a.evaluation # b.evaluation THEN SeqLess(a.evaluation, b.evaluation)
    ELSE IF a.asked_at # b.asked_at THEN SeqLess(a.asked_at, b.asked_at)
    ELSE IF a.text # b.text THEN SeqLess(a.text, b.text)
    ELSE a.id < b.id

RECURSIVE DataQuestionInsert(_, _)
DataQuestionInsert(s, x) ==
    IF s = <<>> THEN <<x>>
    ELSE IF DataQuestionLess(x, s[Len(s)])
         THEN Append(DataQuestionInsert(SubSeq(s, 1, Len(s) - 1), x), s[Len(s)])
         ELSE Append(s, x)

RECURSIVE DataSortQuestions(_)
DataSortQuestions(s) ==
    IF s = <<>> THEN <<>>
    ELSE DataQuestionInsert(DataSortQuestions(SubSeq(s, 1, Len(s) - 1)), s[Len(s)])

\* CourseData::sort: the questions, then the options of every question
\* (QuestionData::sort_options has the comparator of SortOptions)
DataCourseSort(c) ==
    LET sorted == DataSortQuestions(c.questions)
    IN  [c EXCEPT !.questions =
            [i \in 1..Len(sorted) |->
                [sorted[i] EXCEPT !.question_options = SortOptions(@)]]]

\* QuestionOptionData::eq_data
DataOptionEqData(a, b) ==
    a.text = b.text /\ a.correct = b.correct /\ a.explanation = b.explanation

\* QuestionData::eq_data
DataQuestionEqData(a, b) ==
    /\ a.text = b.text
    /\ a.evaluation = b.evaluation
    /\ Len(a.question_options) = Len(b.question_options)
    /\ \A i \in 1..Len(a.question_options) :
          \E j \in 1..Len(b.question_options) :
              DataOptionEqData(a.question_options[i], b.question_options[j])

RECURSIVE DataDeduplicateOptions(_)
\* QuestionData::deduplicate_options: Vec::dedup_by, an element equal to the
\* one kept before it is removed
DataDeduplicateOptions(s) ==
    IF Len(s) <= 1 THEN s
    ELSE LET kept == DataDeduplicateOptions(SubSeq(s, 1, Len(s) - 1))
         IN  IF DataOptionEqData(s[Len(s)], kept[Len(kept)]) THEN kept
             ELSE Append(kept, s[Len(s)])

RECURSIVE DataDeduplicateQuestions(_)
DataDeduplicateQuestions(s) ==
    IF Len(s) <= 1 THEN s
    ELSE LET kept == DataDeduplicateQuestions(SubSeq(s, 1, Len(s) - 1))
         IN  IF DataQuestionEqData(s[Len(s)], kept[Len(kept)]) THEN kept
             ELSE Append(kept, s[Len(s)])

\* CourseData::deduplicate: the questions, then the options of every question
DataCourseDeduplicate(c) ==
    LET kept == DataDeduplicateQuestions(c.questions)
    IN  [c EXCEPT !.questions =
            [i \in 1..Len(kept) |->
                [kept[i] EXCEPT !.question_options = DataDeduplicateOptions(@)]]]

\* the mutation of QuestionData::check that only counts the options
DataQuestionCheckCountOnly(q) ==
    /\ Len(q.question_options) >= MinQuestionOptions
    /\ Len(q.question_options) <= MaxQuestionOptions

\* QuestionData::check: the option count, duplicate texts, one correct option
DataQuestionCheck(q) ==
    /\ Len(q.question_options) >= MinQuestionOptions
    /\ Len(q.question_options) <= MaxQuestionOptions
    /\ CheckDuplicatesInQuestionOptions(q)
    /\ Cardinality({i \in 1..Len(q.question_options) : q.question_options[i].correct}) = 1

\* CourseData::check
DataCourseCheck(c) == \A i \in 1..Len(c.questions) : DataQuestionCheck(c.questions[i])

\* QuestionOptionData::new, QuestionData::new, CourseEvaluationData::new and
\* CourseData::new: back-references unset, hashes empty
DataOption(id, text, correct) ==
    [id |-> id, question_id |-> <<>>, text |-> text, correct |-> correct,
     explanation |-> <<>>, hash |-> EmptyHash]

DataQuestion(id, text, image_file_name, question_options) ==
    [kind |-> "question", id |-> id, course_key |-> <<>>, evaluation |-> <<Ch.a>>,
     source |-> <<Ch.b>>, asked_at |-> <<>>, text |-> text,
     image_file_name |-> image_file_name, question_options |-> question_options,
     hash |-> EmptyHash]

DataEvaluation(key, order) ==
    [key |-> key, course_key |-> <<>>, name |-> key, order |-> <<order>>,
     hash |-> EmptyHash]

DataCourse(key, image_file_name, questions) ==
    [kind |-> "course", key |-> key, name |-> key, short_name |-> key,
     tags |-> <<key, key>>, image_file_name |-> image_file_name,
     year |-> <<>>, order |-> <<1>>, questions |-> questions,
     evaluations |-> <<DataEvaluation(<<Ch.a>>, 1)>>, hash |-> EmptyHash]

\* authored options: one with an empty text, the correct one last; or two
\* correct options
DataOptions(valid) ==
    IF valid
    THEN <<DataOption(1, <<Ch.b>>, FALSE), DataOption(2, <<>>, FALSE),
           DataOption(3, <<Ch.a, Ch.period>>, TRUE)>>
    ELSE <<DataOption(1, <<Ch.b>>, TRUE), DataOption(3, <<Ch.a>>, TRUE)>>

\* "b.5", "a.5" and "1.5", the last being canonical for the question 1
QuestionImages ==
    {NoImage, SomeImage(ExampleFileName), SomeImage(<<Ch.a, Ch.period, Ch.five>>),
     SomeImage(UuidString(1) \o <<Ch.period, Ch.five>>)}

\* a course file: two questions authored out of order, with author-supplied ids
LoadCourses(key) ==
    {DataCourse(key, image,
                <<DataQuestion(1, <<Ch.space, Ch.b>>, i1, DataOptions(valid)),
                  DataQuestion(id2, <<Ch.a>>, i2, DataOptions(TRUE))>>) :
        image \in {NoImage, SomeImage(ExampleFileName)},
        i1 \in QuestionImages, i2 \in QuestionImages,
        id2 \in 1..2, valid \in BOOLEAN}

\* an entry of the data directory: a directory, a file that does not parse,
\* or a course file (its stem is the course key)
Directory(key) == [key |-> key, is_dir |-> TRUE, raw |-> <<>>]
Malformed(key) == [key |-> key, is_dir |-> FALSE, raw |-> <<>>]
CourseFile(c) == [key |-> c.key, is_dir |-> FALSE, raw |-> <<c>>]

FirstEntries == {CourseFile(c) : c \in LoadCourses(<<Ch.a>>)} \cup {Malformed(<<Ch.a>>)}

LaterEntries ==
    {Directory(<<Ch.b>>), Malformed(<<Ch.b>>)}
    \cup {CourseFile(DataCourse(<<Ch.b>>, SomeImage(<<Ch.a, Ch.period, Ch.five>>),
                                <<DataQuestion(2, <<Ch.b>>, NoImage, DataOptions(valid))>>)) :
            valid \in BOOLEAN}

Batches ==
    {<<>>} \cup {<<e>> : e \in FirstEntries}
    \cup {<<e1, e2>> : e1 \in FirstEntries, e2 \in LaterEntries}

\* the files the batch refers to, each in the directory of its course
ReferencedFiles(batch) ==
    UNION {LET c == batch[i].raw[1]
           IN  {<<c.key, c.image_file_name[j]>> : j \in 1..Len(c.image_file_name)}
               \cup UNION {{<<c.key, c.questions[k].image_file_name[j]>> :
                               j \in 1..Len(c.questions[k].image_file_name)} :
                           k \in 1..Len(c.questions)} :
           i \in {i \in 1..Len(batch) : batch[i].raw # <<>>}}

MaxFailAt == 3

LoadInit ==
    /\ DiffIdle
    /\ authored \in Batches
    /\ \E fail_at \in 0..MaxFailAt :
          entity = [files |-> ReferencedFiles(authored), fail_at |-> fail_at,
                    requests |-> <<>>]
    /\ target = 1
    /\ course = None
    /\ record = <<>>
    /\ before = <<>>
    /\ result = None
    /\ history = <<>>
    /\ renames = <<>>
    /\ option = None /\ question = None
    /\ phase = "dir_entry"

\* CourseData::load for the next entry of read_data_dir
LoadCourse ==
    /\ phase = "dir_entry"
    /\ target <= Len(authored)
    /\ IF authored[target].is_dir \/ authored[target].raw = <<>>
       THEN /\ result' = "err"
            /\ phase' = "batch_err"
            /\ UNCHANGED course
       ELSE /\ course' = authored[target].raw[1]
            /\ phase' = "course_loaded"
            /\ UNCHANGED result
    /\ history' = <<>>
    /\ UNCHANGED <<diffVars, authored, option, question, before, target, record,
                   entity, renames>>

\* data.clean()
CleanCourse ==
    /\ phase = "course_loaded"
    /\ course' = DataCourseClean(course)
    /\ phase' = "course_cleaned"
    /\ UNCHANGED <<diffVars, authored, option, question, result, before, target,
                   history, record, entity, renames>>

\* data.format(images_path).await?
FormatCourse ==
    /\ phase = "course_cleaned"
    /\ LET formatted == DataCourseFormat(course, course.key, entity)
       IN  /\ course' = formatted.entity
           /\ entity' = formatted.store
           /\ IF formatted.ok
              THEN phase' = "course_formatted" /\ UNCHANGED result
              ELSE phase' = "batch_err" /\ result' = "err"
    /\ UNCHANGED <<diffVars, authored, option, question, before, target, history,
                   record, renames>>

\* data.sort()
SortCourse ==
    /\ phase = "course_formatted"
    /\ course' = DataCourseSort(course)
    /\ phase' = "course_sorted"
    /\ UNCHANGED <<diffVars, authored, option, question, result, before, target,
                   history, record, entity, renames>>

\* data.deduplicate()
DeduplicateCourse ==
    /\ phase = "course_sorted"
    /\ course' = DataCourseDeduplicate(course)
    /\ phase' = "course_deduplicated"
    /\ UNCHANGED <<diffVars, authored, option, question, result, before, target,
                   history, record, entity, renames>>

\* data.check()?
CheckCourse ==
    /\ phase = "course_deduplicated"
    /\ IF DataCourseCheck(course)
       THEN phase' = "course_checked" /\ UNCHANGED result
       ELSE phase' = "batch_err" /\ result' = "err"
    /\ UNCHANGED <<diffVars, authored, option, question, course, before, target,
                   history, record, entity, renames>>

\* data.set_data()
SetData ==
    /\ phase = "course_checked"
    /\ course' = DataCourseSetData(course)[1]
    /\ history' = DataCourseSetData(course)[2]
    /\ phase' = "course_data_set"
    /\ UNCHANGED <<diffVars, authored, option, question, result, before, target,
                   record, entity, renames>>

\* data.clone().write(path)?; Ok(data), and the push of the batch loader
WriteCourse ==
    /\ phase = "course_data_set"
    /\ before' = Append(before, course)
    /\ record' = Append(record, course)
    /\ target' = target + 1
    /\ phase' = "dir_entry"
    /\ UNCHANGED <<diffVars, authored, option, question, course, result, history,
                   entity, renames>>

\* Ok(courses_data) once read_data_dir is exhausted
FinishBatch ==
    /\ phase = "dir_entry"
    /\ target > Len(authored)
    /\ result' = "ok"
    /\ phase' = "batch_ok"
    /\ UNCHANGED <<diffVars, authored, option, question, course, before, target,
                   history, record, entity, renames>>

LoadNext ==
    \/ LoadCourse \/ CleanCourse \/ FormatCourse \/ SortCourse
    \/ DeduplicateCourse \/ CheckCourse \/ SetData \/ WriteCourse \/ FinishBatch

SpecLoad == LoadInit /\ [][LoadNext]_vars

\* the positions of the steps of set_data of one kind on the entity at `at`
Steps(op, kind, at) ==
    {i \in 1..Len(history) :
        history[i].op = op /\ history[i].kind = kind /\ history[i].at = at}

\* C24: in set_data every question's course key and every option's question id
\* is assigned before the hash that reads it is computed, so no hash is
\* computed on an unset back-reference; each option is hashed before its
\* question, every question and evaluation before the course, each entity
\* once, and every stored hash is the hash of the entity as it ends up.
C24_SetDataBottomUp ==
    phase = "course_data_set" =>
        LET qs == course.questions
            es == course.evaluations
        IN  /\ \A i \in 1..Len(qs) :
                  /\ qs[i].course_key = <<course.key>>
                  /\ qs[i].hash # PanicHash
                  /\ qs[i].hash = DataQuestionHash(qs[i])
                  /\ Cardinality(Steps("set", "question", <<i>>)) = 1
                  /\ Cardinality(Steps("hash", "question", <<i>>)) = 1
                  /\ \A s \in Steps("set", "question", <<i>>) :
                        \A h \in Steps("hash", "question", <<i>>) : s < h
                  /\ \A j \in 1..Len(qs[i].question_options) :
                        LET o == qs[i].question_options[j]
                        IN  /\ o.question_id = <<qs[i].id>>
                            /\ o.hash # PanicHash
                            /\ o.hash = DataOptionHash(o)
                            /\ Cardinality(Steps("set", "option", <<i, j>>)) = 1
                            /\ Cardinality(Steps("hash", "option", <<i, j>>)) = 1
                            /\ \A s \in Steps("set", "option", <<i, j>>) :
                                  \A h \in Steps("hash", "option", <<i, j>>) :
                                      /\ s < h
                                      /\ \A hq \in Steps("hash", "question", <<i>>) :
                                            h < hq
            /\ \A i \in 1..Len(es) :
                  /\ es[i].course_key = <<course.key>>
                  /\ es[i].hash # PanicHash
                  /\ es[i].hash = DataEvaluationHash(es[i])
                  /\ Cardinality(Steps("hash", "evaluation", <<i>>)) = 1
                  /\ \A s \in Steps("set", "evaluation", <<i>>) :
                        \A h \in Steps("hash", "evaluation", <<i>>) : s < h
            /\ course.hash = DataCourseHash(course)
            /\ Steps("hash", "course", <<>>) = {Len(history)}
            /\ Len(history) = 2 * Len(qs) + 2 * Len(es) + 1
                   + 2 * Cardinality({<<i, j>> \in (1..Len(qs)) \X (1..MaxQuestionOptions) :
                                         j <= Len(qs[i].question_options)})

\* a course of two questions with two options each and one evaluation has
\* been fingerprinted: fifteen steps, the course's hash last
C24_Witness ==
    /\ phase = "course_data_set"
    /\ Len(course.questions) = 2
    /\ \A i \in 1..2 : Len(course.questions[i].question_options) = 2
    /\ Len(course.evaluations) = 1
    /\ Len(history) = 15
    /\ history[1] = [op |-> "set", kind |-> "question", at |-> <<1>>]
    /\ history[15] = [op |-> "hash", kind |-> "course", at |-> <<>>]

\* the ids of a sequence of entities, in order
Ids(s) == [i \in 1..Len(s) |-> s[i].id]

\* C25: once the asset store has failed a rename for the image of a course or
\* of one of its questions, the load of the batch has returned an error and
\* nothing more was done: the failed request is the last one, the course in
\* memory has its questions and their options in the authored order (not
\* sorted, not deduplicated), no back-reference and no hash was set on it, and
\* it was neither written nor returned.
C25_RenameFailureStopsCourse ==
    (\E i \in 1..Len(entity.requests) : ~entity.requests[i].ok) =>
        LET raw == authored[target].raw[1]
            failed == entity.requests[Len(entity.requests)]
        IN  /\ phase = "batch_err"
            /\ result = "err"
            /\ ~failed.ok
            /\ \A i \in 1..(Len(entity.requests) - 1) : entity.requests[i].ok
            /\ failed.dir = course.key
            /\ course.key = raw.key
            /\ course.hash = EmptyHash
            /\ history = <<>>
            /\ Ids(course.questions) = Ids(raw.questions)
            /\ \A i \in 1..Len(course.questions) :
                  /\ course.questions[i].hash = EmptyHash
                  /\ course.questions[i].course_key = <<>>
                  /\ Ids(course.questions[i].question_options)
                        = Ids(SelectSeq(raw.questions[i].question_options,
                                        LAMBDA o : o.text # <<>>))
                  /\ \A j \in 1..Len(course.questions[i].question_options) :
                        /\ course.questions[i].question_options[j].hash = EmptyHash
                        /\ course.questions[i].question_options[j].question_id = <<>>
            /\ Len(record) = target - 1
            /\ Len(before) = target - 1
            /\ \A i \in 1..Len(before) : before[i].key # course.key

\* the rename for the image of the second question failed after those for the
\* course and for the first question: the questions are still as authored,
\* "b" before "a", the first with its new reference, the second with its old
C25_Witness ==
    /\ phase = "batch_err"
    /\ target = 1
    /\ Len(entity.requests) = 3
    /\ entity.requests[2].ok
    /\ ~entity.requests[3].ok
    /\ entity.fail_at = 3
    /\ course.questions[1].text = <<Ch.b>>
    /\ course.questions[2].text = <<Ch.a>>
    /\ course.questions[1].image_file_name # authored[1].raw[1].questions[1].image_file_name
    /\ course.questions[2].image_file_name = authored[1].raw[1].questions[2].image_file_name
    /\ before = <<>>

\* the image-bearing entities of the course being loaded: the course itself
\* (position 0) and its questions
ImageBearer(i) == IF i = 0 THEN course ELSE course.questions[i]

\* the rename target of an entity with an image, in the directory of its course
RenameTarget(e) == <<course.key, RenamedFileName(e)>>

\* C26: when a course is about to be formatted, no two of its image-bearing
\* entities that refer to different files have the same rename target
\* (directory, canonical name, extension).
C26_RenameTargetsDistinct ==
    phase = "course_cleaned" =>
        \A i, j \in 0..Len(course.questions) :
            (/\ i < j
             /\ ImageBearer(i).image_file_name # NoImage
             /\ ImageBearer(j).image_file_name # NoImage
             /\ ImageBearer(i).image_file_name # ImageBearer(j).image_file_name)
            => RenameTarget(ImageBearer(i)) # RenameTarget(ImageBearer(j))

\* C26, what the code keeps: the course and a question with another id never
\* share a target when the course key is not the text of a question id
C26_DistinctIdsDistinctTargets ==
    phase = "course_cleaned" =>
        \A i, j \in 1..Len(course.questions) :
            (/\ course.questions[i].id # course.questions[j].id
             /\ course.questions[i].image_file_name # NoImage
             /\ course.questions[j].image_file_name # NoImage)
            => RenameTarget(course.questions[i]) # RenameTarget(course.questions[j])

\* a question as the validation accepts it: two to five options, no two with
\* the same text, exactly one correct
ValidQuestion(q) ==
    /\ Len(q.question_options) \in 2..5
    /\ \A i, j \in 1..Len(q.question_options) :
          i # j => q.question_options[i].text # q.question_options[j].text
    /\ \E i \in 1..Len(q.question_options) :
          /\ q.question_options[i].correct
          /\ \A j \in 1..Len(q.question_options) :
                q.question_options[j].correct => j = i

AllRenamesOk == \A i \in 1..Len(entity.requests) : entity.requests[i].ok

\* C27: the batch loader keeps one course per directory entry, in order, for
\* as long as it runs; it returns Ok only after every entry was a course file
\* that parsed, whose renames all succeeded and whose questions are all valid,
\* and it then returns one course per entry; it returns an error at the first
\* entry that is unreadable, whose rename failed or that has an invalid
\* question, with every earlier course kept and written, and nothing of a
\* later entry was renamed or written.
C27_BatchAllOrNothing ==
    /\ Len(record) = target - 1
    /\ Len(before) = target - 1
    /\ \A i \in 1..Len(record) :
          /\ ~authored[i].is_dir
          /\ authored[i].raw # <<>>
          /\ record[i].key = authored[i].key
          /\ before[i] = record[i]
          /\ \A k \in 1..Len(record[i].questions) : ValidQuestion(record[i].questions[k])
    /\ \A i \in 1..Len(entity.requests) :
          \E k \in 1..Len(authored) :
              k <= target /\ entity.requests[i].dir = authored[k].key
    /\ phase = "batch_ok" =>
          /\ result = "ok"
          /\ Len(record) = Len(authored)
          /\ AllRenamesOk
    /\ phase = "batch_err" =>
          /\ result = "err"
          /\ target <= Len(authored)
          /\ \/ authored[target].is_dir
             \/ authored[target].raw = <<>>
             \/ ~AllRenamesOk
             \/ \E k \in 1..Len(course.questions) : ~ValidQuestion(course.questions[k])
    /\ phase \notin {"batch_ok", "batch_err"} => result = None

\* the second of two course files has a question with two correct options:
\* the first course was loaded, renamed and written, the load of the second
\* returned the error and the batch with it
C27_Witness ==
    /\ phase = "batch_err"
    /\ Len(authored) = 2
    /\ target = 2
    /\ Len(record) = 1
    /\ authored[2].raw # <<>>
    /\ AllRenamesOk
    /\ Len(entity.requests) = 4
    /\ course.key = <<Ch.b>>
    /\ ~ValidQuestion(course.questions[1])

(***************************************************************************)
(* Sync Diff Engine (spec.md 4.4; the types are src/src/sync/types.rs)     *)
(***************************************************************************)
Keys == {"a", "b", "c"}
Fingerprints == {"h1", "h2", "h3"}

\* SyncMetadata keeps key -> fingerprint maps for courses, questions, question
\* options, bundles and icons, and bare key sets for question topics and
\* question sources.
MapCollections == {"courses", "questions", "question_options", "bundles", "icons"}
SetCollections == {"question_topics", "question_sources"}
ModelledCollections == {"questions", "question_topics"}

\* QuestionTopicData / QuestionSourceData: the canonical bytes are the key's
\* bytes, so the fingerprint is a function of the key.
KeyFingerprint(k) == CASE k = "a" -> "h1" [] k = "b" -> "h2" [] OTHER -> "h3"

Mappings == UNION {[D -> Fingerprints] : D \in SUBSET Keys}

\* The current entities of a collection: unique keys, each with its fingerprint.
CurrentSets(c) ==
    IF c \in MapCollections
    THEN {{[key |-> k, hash |-> m[k]] : k \in DOMAIN m} : m \in Mappings}
    ELSE {{[key |-> k, hash |-> KeyFingerprint(k)] : k \in D} : D \in SUBSET Keys}

\* The metadata entry of a collection: HashMap<K, String> or HashSet<String>.
SyncMetadata(c) == IF c \in MapCollections THEN Mappings ELSE SUBSET Keys

MetadataKeys(c, meta) == IF c \in MapCollections THEN DOMAIN meta ELSE meta

\* Whether the metadata records this entity with its present fingerprint.
RecordedUnchanged(c, meta, e) ==
    IF c \in MapCollections
    THEN e.key \in DOMAIN meta /\ meta[e.key] = e.hash
    ELSE e.key \in meta

DiffForSyncEverything(c, cur, meta) == cur

DiffForSyncDropsChanged(c, cur, meta) ==
    {e \in cur : e.key \notin MetadataKeys(c, meta)}

DiffForSync(c, cur, meta) == {e \in cur : ~RecordedUnchanged(c, meta, e)}

DiffForDeletionOfChanged(c, cur, meta) ==
    {k \in MetadataKeys(c, meta) : \A e \in cur : ~RecordedUnchanged(c, meta, e) \/ e.key # k}

DiffForDeletion(c, cur, meta) ==
    {k \in MetadataKeys(c, meta) : \A e \in cur : e.key # k}

SnapshotOfKeysAsFirstSeen(c, cur) ==
    IF c \in MapCollections
    THEN [k \in {e.key : e \in cur} |-> "h1"]
    ELSE {e.key : e \in cur}

\* The metadata snapshot the store collaborator persists for the next cycle.
SnapshotOf(c, cur) ==
    IF c \in MapCollections
    THEN [k \in {e.key : e \in cur} |-> (CHOOSE e \in cur : e.key = k).hash]
    ELSE {e.key : e \in cur}

DiffInit ==
    /\ collection \in ModelledCollections
    /\ current \in CurrentSets(collection)
    /\ metadata \in SyncMetadata(collection)
    /\ for_sync = {}
    /\ for_deletion = {}
    /\ TreeIdle
    /\ ImageIdle
    /\ phase = "loaded"

\* One run of the diff over the two snapshots.
Diff ==
    /\ phase \in {"loaded", "stored", "changed"}
    /\ for_sync' = DiffForSync(collection, current, metadata)
    /\ for_deletion' = DiffForDeletion(collection, current, metadata)
    /\ phase' = CASE phase = "loaded" -> "diffed"
                  [] phase = "stored" -> "rediffed"
                  [] OTHER -> "diffed_after_change"
    /\ UNCHANGED <<collection, current, metadata, history, record>>
    /\ UNCHANGED <<treeVars, imageVars>>

\* The store collaborator applies the sets and persists the new snapshot.
StoreMetadata ==
    /\ phase = "diffed"
    /\ metadata' = SnapshotOf(collection, current)
    /\ phase' = "stored"
    /\ UNCHANGED <<collection, current, for_sync, for_deletion, history, record>>
    /\ UNCHANGED <<treeVars, imageVars>>

\* The content of one entity changes after the cycle: in a collection with
\* fingerprints the entity gets another fingerprint under its key; a topic or a
\* source is its key, so the changed one has another key.
ChangeEntity ==
    /\ phase = "rediffed"
    /\ \E e \in current :
          \/ /\ collection \in MapCollections
             /\ \E h \in Fingerprints \ {e.hash} :
                   current' = (current \ {e}) \cup {[key |-> e.key, hash |-> h]}
             /\ target' = e.key
          \/ /\ collection \in SetCollections
             /\ \E k \in Keys \ {x.key : x \in current} :
                   /\ current' = (current \ {e}) \cup {[key |-> k, hash |-> KeyFingerprint(k)]}
                   /\ target' = k
    /\ phase' = "changed"
    /\ UNCHANGED <<collection, metadata, for_sync, for_deletion>>
    /\ UNCHANGED <<authored, option, question, course, result, before, history, record>>
    /\ UNCHANGED imageVars

DiffNext == Diff \/ StoreMetadata \/ ChangeEntity

SpecDiff == DiffInit /\ [][DiffNext]_vars

CurrentKeys == {e.key : e \in current}
CurrentHash(k) == (CHOOSE e \in current : e.key = k).hash

\* C1: after a diff, for_sync holds exactly the current entities whose key the
\* previous metadata lacks or records with another fingerprint; for current
\* {a: h1, b: h2} against previous {a: h1, c: h3} it is {b}.
C1_ForSyncExact ==
    phase = "diffed" =>
        /\ for_sync \subseteq current
        /\ \A e \in current :
              e \in for_sync <=>
                 \/ e.key \notin MetadataKeys(collection, metadata)
                 \/ /\ collection \in MapCollections
                    /\ e.key \in DOMAIN metadata
                    /\ metadata[e.key] # e.hash
        /\ ( /\ collection = "questions"
             /\ current = {[key |-> "a", hash |-> "h1"], [key |-> "b", hash |-> "h2"]}
             /\ metadata = [k \in {"a", "c"} |-> IF k = "a" THEN "h1" ELSE "h3"] )
           => for_sync = {[key |-> "b", hash |-> "h2"]}

C1_Witness ==
    /\ phase = "diffed"
    /\ collection = "questions"
    /\ current = {[key |-> "a", hash |-> "h1"], [key |-> "b", hash |-> "h2"]}
    /\ metadata = [k \in {"a", "c"} |-> IF k = "a" THEN "h1" ELSE "h3"]
    /\ for_sync = {[key |-> "b", hash |-> "h2"]}

\* C2: after a diff, for_deletion holds exactly the keys the previous metadata
\* has and the current entities lack.
C2_ForDeletionExact ==
    phase = "diffed" =>
        \A k \in Keys :
            k \in for_deletion <=>
                (k \in MetadataKeys(collection, metadata) /\ k \notin CurrentKeys)

C2_Witness ==
    /\ phase = "diffed"
    /\ collection = "questions"
    /\ CurrentKeys = {"a", "b"}
    /\ DOMAIN metadata = {"a", "c"}
    /\ for_deletion = {"c"}

\* C3: a key recorded with the fingerprint it still has is in neither set, and
\* no key is in both sets.
C3_UnchangedInNeither ==
    phase = "diffed" =>
        /\ \A e \in current :
              RecordedUnchanged(collection, metadata, e) =>
                  (e \notin for_sync /\ e.key \notin for_deletion)
        /\ {e.key : e \in for_sync} \cap for_deletion = {}

C3_Witness ==
    /\ phase = "diffed"
    /\ collection = "questions"
    /\ \E e \in current :
          /\ e.key \in DOMAIN metadata
          /\ metadata[e.key] = e.hash
          /\ e \notin for_sync
          /\ e.key \notin for_deletion
    /\ for_sync # {}
    /\ for_deletion # {}

\* C21: when the stored metadata was replaced by the current key-to-fingerprint
\* mapping after a diff, the next diff over the unchanged content yields an
\* empty for_sync and an empty for_deletion; after a later change to one entity
\* the diff puts that entity, and nothing that did not change, in for_sync.
C21_NextCycleQuiet ==
    /\ phase = "rediffed" => (for_sync = {} /\ for_deletion = {})
    /\ phase = "diffed_after_change" =>
          /\ for_sync = {e \in current : e.key = target}
          /\ Cardinality(for_sync) = 1

\* a collection of three entities went through diff, store and a quiet second
\* diff; then one entity changed and the third diff asks for that one only
C21_Witness ==
    /\ phase = "diffed_after_change"
    /\ collection = "questions"
    /\ Cardinality(current) = 3
    /\ Cardinality(for_sync) = 1
    /\ for_deletion = {}

=============================================================================
